---- MODULE Spec2Model ----
(***************************************************************************)
(* The Modular sub-coder of jxl/modular/encoding/encoding.cc: the MA tree  *)
(* filter / flattener, the WP-only lookup-table walk, the per-channel      *)
(* encoder and decoder paths and the channel loops of ModularEncode and    *)
(* ModularDecode.                                                          *)
(*                                                                         *)
(* Indices (tree nodes, flat nodes, channels, table slots) are the 0-based *)
(* indices of the source; a sequence s is read at source index i as        *)
(* s[i + 1].                                                               *)
(***************************************************************************)
EXTENDS Integers, Sequences, FiniteSets, TLC

VARIABLES
  pc,            \* position of the modelled run
  tree,          \* authoring tree (Tree): sequence of PropertyDecisionNode
  static_props,  \* <<channel index, group id>>
  filtered,      \* what FilterTree returned: flat tree, num_props, use_wp, wp_only
  props,         \* the property vector handed to tree lookup
  flat_leaf,     \* leaf reached by flat-tree lookup
  naive_leaf,    \* leaf reached by descent of the authoring tree
  mode,          \* "enc": EncodeModularChannelMAANS, "dec": DecodeModularChannelMAANS
  context_map,   \* decoder: raw context id -> clustered context id
  flat_tree,     \* the codec's FlatTree (decoder: with clustered context ids)
  is_wp_only,    \* the codec's is_wp_only flag
  ranges,        \* the TreeRange stack of the WP range walk
  fills,         \* context_lookup / multipliers / offsets, as the range fills made
  walk_access,   \* flat-tree position the walk dereferenced last, and the tree's size
  wp_read,       \* last per-pixel table read: raw WP property and slot
  channel,       \* image.channel: the <<w, h>> of every channel
  nb_meta_channels,  \* image.nb_meta_channels
  options,       \* ModularOptions: skipchannels, max_chan_size
  caller,        \* what ModularEncode was handed: a tree, or columns to gather into
  loop_i,        \* the running channel loop's index i
  visited,       \* per channel loop, the channels its body reached, in order
  finished,      \* the channel loops that have run to their end
  pixels,        \* the encoder's input: per channel, its pixels in raster order
  stream,        \* what the decoder reads: the encoder's tokens or a crafted stream
  tokens,        \* the token vector the encoder appends to
  decoded,       \* the decoder's output: per channel, the pixels written so far
  enc,           \* EncodeModularChannelMAANS: channel, path, pixel position, WP state
  dec,           \* DecodeModularChannelMAANS: channel, path, pixel position, WP state
  wp_calls,      \* the calls made on the running channel's weighted::State, in order
  zig,           \* one residual on its way through PackSigned and UnpackSigned
  image,         \* Image fields besides the channels: w, h, error, transform
  call,          \* the entry point called, its arguments, its header, its result
  writer,        \* BitWriter: the stream sections written, in order
  reader,        \* BitReader: what the stream holds and the sections consumed
  gather,        \* GatherTreeData / LearnTree: generator, columns, total_pixels
  first_run      \* what an earlier call of the encoder on the same input produced

flat_vars == <<filtered, props, flat_leaf, naive_leaf>>
walk_vars == <<mode, context_map, flat_tree, is_wp_only, ranges, fills,
               walk_access, wp_read>>
sel_vars == <<channel, nb_meta_channels, options, caller, loop_i, visited, finished>>
codec_vars == <<pixels, stream, tokens, decoded, enc, dec, wp_calls>>
entry_vars == <<image, call, writer, reader, gather>>
vars == <<pc, tree, static_props, flat_vars, walk_vars, sel_vars, codec_vars, zig,
          first_run, entry_vars>>

(***************************************************************************)
(* Program constants                                                       *)
(***************************************************************************)
kNumStaticProperties == 2
kNumNonrefProperties == 16
kNumWPProperties == 1
kExtraPropsPerChannel == 4
kWPProp == kNumNonrefProperties - kNumWPProperties
kWPPropRange == 512

(***************************************************************************)
(* Bounds of the model                                                     *)
(***************************************************************************)
MaxInner == 3

(***************************************************************************)
(* Helpers                                                                 *)
(***************************************************************************)
Max(a, b) == IF a >= b THEN a ELSE b
Min(a, b) == IF a <= b THEN a ELSE b
DivCeil(a, b) == (a + b - 1) \div b

NoLeaf == [predictor |-> "none", predictor_offset |-> 0, multiplier |-> 0, context |-> -1]
NoFiltered == [tree |-> <<>>, num_props |-> 0, use_wp |-> FALSE, wp_only |-> FALSE]
NoProps == [i \in {} |-> 0]

(***************************************************************************)
(* Authoring tree                                                          *)
(***************************************************************************)
\* A leaf: property = -1, lchild holds the context id.
LeafNode(ctx, predictor, offset, multiplier) ==
  [property |-> -1, splitval |-> 0, lchild |-> ctx, rchild |-> 0,
   predictor |-> predictor, predictor_offset |-> offset, multiplier |-> multiplier]

InnerNode(property, splitval, l, r) ==
  [property |-> property, splitval |-> splitval, lchild |-> l, rchild |-> r,
   predictor |-> "Zero", predictor_offset |-> 0, multiplier |-> 1]

IsLeaf(n) == n.property = -1

LeafIds(t) == {i \in 0..(Len(t) - 1) : IsLeaf(t[i + 1])}
InnerIds(t) == {i \in 0..(Len(t) - 1) : ~IsLeaf(t[i + 1])}

\* Append-only construction: leaf i becomes a decision node whose two children
\* are appended; the left child keeps the leaf, the right child is a new leaf
\* with the next free context id.
SplitLeafAt(t, i, property, splitval, predictor, offset, multiplier) ==
  LET old == t[i + 1]
      n == Len(t)
  IN  Append(Append([t EXCEPT ![i + 1] = InnerNode(property, splitval, n, n + 1)],
                    old),
             LeafNode(Cardinality(LeafIds(t)), predictor, offset, multiplier))

\* Leaves are split in increasing index order, so every shape is built once.
CanSplit(t, i, bound) ==
  /\ i \in LeafIds(t)
  /\ Cardinality(InnerIds(t)) < bound
  /\ \A j \in InnerIds(t) : j < i

(***************************************************************************)
(* FilterTree                                                              *)
(***************************************************************************)
\* SkipStatic keeping the decisions on static properties.
SkipStatic_Keep(t, s, cur) == cur

\* Skip nodes that are decided by the static properties.
RECURSIVE SkipStatic(_, _, _)
SkipStatic(t, s, cur) ==
  LET n == t[cur + 1]
  IN  IF n.property < kNumStaticProperties /\ n.property # -1
      THEN IF s[n.property + 1] > n.splitval
           THEN SkipStatic(t, s, n.lchild)
           ELSE SkipStatic(t, s, n.rchild)
      ELSE cur

\* 1 << p, evaluated in int and converted to size_t, as the set of bits set.
ShiftBits(p) == IF p = 31 THEN 31..63 ELSE {p}

\* 1 << p for any property id p.  A shift count of 32 or more is undefined
\* for int: a build either uses the low five bits of the count ("mask") or
\* yields no bit at all ("zero").
ShiftBuilds == {"mask", "zero"}
ShiftOf(p, build) ==
  IF p < 32 THEN ShiftBits(p)
  ELSE IF build = "mask" THEN ShiftBits(p % 32) ELSE {}

FlatLeafOf(n) ==
  [property0 |-> -1, splitval0 |-> 0, properties |-> <<0, 0>>, splitvals |-> <<0, 0>>,
   childID |-> n.lchild, predictor |-> n.predictor,
   predictor_offset |-> n.predictor_offset, multiplier |-> n.multiplier]

\* FlatChild with the two grand-children enqueued in the wrong order.
FlatChild_SwappedPush(t, s, cur, i) ==
  LET start == IF i = 0 THEN t[cur + 1].lchild ELSE t[cur + 1].rchild
      cur_child == SkipStatic(t, s, start)
      c == t[cur_child + 1]
  IN  IF c.property = -1
      THEN [property |-> 0, splitval |-> 0, push |-> <<cur_child, cur_child>>,
            real |-> FALSE]
      ELSE [property |-> c.property, splitval |-> c.splitval,
            push |-> <<c.rchild, c.lchild>>, real |-> TRUE]

\* One child (i = 0: lchild, i = 1: rchild) of the decision node cur:
\* the (property, splitval) recorded for it and the two nodes it enqueues.
FlatChild(t, s, cur, i) ==
  LET start == IF i = 0 THEN t[cur + 1].lchild ELSE t[cur + 1].rchild
      cur_child == SkipStatic(t, s, start)
      c == t[cur_child + 1]
  IN  IF c.property = -1
      THEN [property |-> 0, splitval |-> 0, push |-> <<cur_child, cur_child>>,
            real |-> FALSE]
      ELSE [property |-> c.property, splitval |-> c.splitval,
            push |-> <<c.lchild, c.rchild>>, real |-> TRUE]

UsedBitsOf(flat, build) ==
  UNION {ShiftOf(flat.properties[j], build) :
           j \in {k \in 1..2 : flat.properties[k] >= kNumStaticProperties}}
  \cup (IF flat.property0 >= kNumStaticProperties
        THEN ShiftOf(flat.property0, build) ELSE {})

\* One iteration of the BFS loop.
FilterStep(t, s, st) ==
  LET cur == SkipStatic(t, s, Head(st.nodes))
      rest == Tail(st.nodes)
      n == t[cur + 1]
  IN  IF n.property = -1
      THEN [st EXCEPT !.nodes = rest,
                      !.output = Append(st.output, FlatLeafOf(n)),
                      !.use_wp = st.use_wp \/ n.predictor = "Weighted",
                      !.wp_only = st.wp_only /\ n.predictor = "Weighted"]
      ELSE LET c0 == FlatChild(t, s, cur, 0)
               c1 == FlatChild(t, s, cur, 1)
               flat == [property0 |-> n.property, splitval0 |-> n.splitval,
                        properties |-> <<c0.property, c1.property>>,
                        splitvals |-> <<c0.splitval, c1.splitval>>,
                        childID |-> Len(st.output) + Len(rest) + 1,
                        predictor |-> "Zero", predictor_offset |-> 0,
                        multiplier |-> 1]
               np0 == Max(n.property + 1, st.num_props)
               np1 == IF c0.real THEN Max(c0.property + 1, np0) ELSE np0
               np2 == IF c1.real THEN Max(c1.property + 1, np1) ELSE np1
           IN  [st EXCEPT !.nodes = rest \o c0.push \o c1.push,
                          !.output = Append(st.output, flat),
                          !.num_props = np2,
                          !.used_properties = st.used_properties \cup UsedBitsOf(flat, st.build)]

RECURSIVE FilterLoop(_, _, _)
FilterLoop(t, s, st) ==
  IF st.nodes = <<>> THEN st ELSE FilterLoop(t, s, FilterStep(t, s, st))

\* RoundedProps rounding the reference properties down.
RoundedProps_Floor(n) ==
  IF n > kNumNonrefProperties
  THEN ((n - kNumNonrefProperties) \div kExtraPropsPerChannel)
         * kExtraPropsPerChannel + kNumNonrefProperties
  ELSE kNumNonrefProperties

\* The final value of *num_props: the reference properties come in whole
\* groups of kExtraPropsPerChannel.
RoundedProps(n) ==
  IF n > kNumNonrefProperties
  THEN DivCeil(n - kNumNonrefProperties, kExtraPropsPerChannel)
         * kExtraPropsPerChannel + kNumNonrefProperties
  ELSE kNumNonrefProperties

\* FilterTree as the given build runs it.
FilterTreeOn(t, s, build) ==
  LET st == FilterLoop(t, s, [nodes |-> <<0>>, output |-> <<>>, num_props |-> 0,
                              use_wp |-> FALSE, wp_only |-> TRUE,
                              used_properties |-> {}, build |-> build])
  IN  [tree |-> st.output,
       num_props |-> RoundedProps(st.num_props),
       use_wp |-> st.use_wp \/ (kWPProp \in st.used_properties),
       wp_only |-> st.wp_only /\ st.used_properties = ShiftBits(kWPProp)]

\* FilterTree for trees whose property ids are all below 32: no shift is
\* undefined and every build gives the same result.
FilterTree(t, s) == FilterTreeOn(t, s, "mask")

RECURSIVE OriginLoop(_, _, _, _)
\* The BFS loop again, keeping for every flat node appended to the output the
\* node of the original tree (cur, after the static skip) it was made from.
OriginLoop(t, s, st, origins) ==
  IF st.nodes = <<>> THEN origins
  ELSE OriginLoop(t, s, FilterStep(t, s, st),
                  Append(origins, SkipStatic(t, s, Head(st.nodes))))

FlatOrigins(t, s) ==
  OriginLoop(t, s, [nodes |-> <<0>>, output |-> <<>>, num_props |-> 0,
                    use_wp |-> FALSE, wp_only |-> TRUE, used_properties |-> {},
                    build |-> "mask"],
             <<>>)

(***************************************************************************)
(* Tree lookup                                                             *)
(***************************************************************************)
LeafResult(predictor, offset, multiplier, context) ==
  [predictor |-> predictor, predictor_offset |-> offset, multiplier |-> multiplier,
   context |-> context]

\* Flat-tree lookup: three comparisons per flat node; the grand-child slot is
\* childID + 2 * top + sub, slot 0 being the child FilterTree enqueues first.
RECURSIVE FlatLookupFrom(_, _, _)
FlatLookupFrom(flat, p, pos) ==
  LET node == flat[pos + 1]
  IN  IF node.property0 < 0
      THEN LeafResult(node.predictor, node.predictor_offset, node.multiplier,
                      node.childID)
      ELSE LET top == IF p[node.property0] > node.splitval0 THEN 0 ELSE 1
               sub == IF p[node.properties[top + 1]] > node.splitvals[top + 1]
                      THEN 0 ELSE 1
           IN  FlatLookupFrom(flat, p, node.childID + 2 * top + sub)

FlatLookup(flat, p) == FlatLookupFrom(flat, p, 0)

\* Naive descent of the authoring tree.
RECURSIVE NaiveLookupFrom(_, _, _)
NaiveLookupFrom(t, p, cur) ==
  LET n == t[cur + 1]
  IN  IF n.property = -1
      THEN LeafResult(n.predictor, n.predictor_offset, n.multiplier, n.lchild)
      ELSE IF p[n.property] > n.splitval
           THEN NaiveLookupFrom(t, p, n.lchild)
           ELSE NaiveLookupFrom(t, p, n.rchild)

NaiveLookup(t, p) == NaiveLookupFrom(t, p, 0)

\* The property vector of a pixel: the static entries followed by the rest.
WithStatic(s, v) ==
  [i \in (0..(kNumStaticProperties - 1)) \cup DOMAIN v |->
     IF i < kNumStaticProperties THEN s[i + 1] ELSE v[i]]

(***************************************************************************)
(* Values of the variables a specification does not use                    *)
(***************************************************************************)
NoAccess == [pos |-> 0, size |-> 1]
NoRead == [raw |-> 0, pos |-> 0, ctx |-> 0]

WalkIdle ==
  /\ mode = "none"
  /\ context_map = <<>>
  /\ flat_tree = <<>>
  /\ is_wp_only = FALSE
  /\ ranges = <<>>
  /\ fills = <<>>
  /\ walk_access = NoAccess
  /\ wp_read = NoRead

NoVisits == [enc_gather |-> <<>>, enc_code |-> <<>>, dec_count |-> <<>>,
             dec_dist |-> <<>>, dec_code |-> <<>>]

SelIdle ==
  /\ channel = <<>>
  /\ nb_meta_channels = 0
  /\ options = [skipchannels |-> 0, max_chan_size |-> 0]
  /\ caller = "none"
  /\ loop_i = 0
  /\ visited = NoVisits
  /\ finished = {}

NoStream == [kind |-> "none", context_map |-> <<>>]

NoCoder == [chan |-> 0, path |-> "none", x |-> 0, y |-> 0]

CodecIdle ==
  /\ pixels = <<>>
  /\ stream = NoStream
  /\ tokens = <<>>
  /\ decoded = <<>>
  /\ enc = NoCoder
  /\ dec = NoCoder
  /\ wp_calls = <<>>

NoZig == [stage |-> "idle", x |-> 0, sym |-> 0, back |-> 0]

ZigIdle == zig = NoZig

\* No earlier call: the columns and the tokens of an earlier call, once there
\* is one.
NoRun == [ran |-> FALSE, props |-> [cols |-> FALSE, size |-> 0, wp |-> <<>>],
          residuals |-> <<>>, total_pixels |-> {}, tokens |-> <<>>]

NoImage == [w |-> 0, h |-> 0, nb_channels |-> 0, error |-> FALSE, transform |-> <<>>,
            meta_applied |-> <<>>, undone |-> FALSE]
NoCall == [fn |-> "none", ret |-> "none"]
NoReader == [kind |-> "none", fault |-> "none", header |-> "none", tree |-> <<>>,
             consumed |-> <<>>]
NoGather == [chan |-> -1]

EntryIdle ==
  /\ image = NoImage
  /\ call = NoCall
  /\ writer = <<>>
  /\ reader = NoReader
  /\ gather = NoGather

FlatIdle ==
  /\ filtered = NoFiltered
  /\ props = NoProps
  /\ flat_leaf = NoLeaf
  /\ naive_leaf = NoLeaf

(***************************************************************************)
(* Specification SpecFlat: an authoring tree is built, filtered for a      *)
(* channel, and looked up both ways.                                       *)
(***************************************************************************)
FlatProperties == {0, 1, 2}
FlatSplitvals == {0, 1}
FlatStatics == {<<0, 0>>, <<1, 0>>, <<1, 2>>}
FlatValues == {0, 1, 2}
FlatVectors == {[i \in {2} |-> x] : x \in FlatValues}

InitFlat ==
  /\ pc = "build"
  /\ tree = <<LeafNode(0, "Zero", 0, 1)>>
  /\ static_props \in FlatStatics
  /\ filtered = NoFiltered
  /\ props = NoProps
  /\ flat_leaf = NoLeaf
  /\ naive_leaf = NoLeaf
  /\ WalkIdle
  /\ SelIdle
  /\ CodecIdle
  /\ ZigIdle
  /\ first_run = NoRun
  /\ EntryIdle

FlatSplit ==
  /\ pc = "build"
  /\ \E i \in LeafIds(tree), p \in FlatProperties, sv \in FlatSplitvals :
       /\ CanSplit(tree, i, MaxInner)
       /\ tree' = SplitLeafAt(tree, i, p, sv, "Gradient", 0, 1)
  /\ UNCHANGED <<pc, static_props, flat_vars, walk_vars, sel_vars, codec_vars, zig, first_run, entry_vars>>

FlatFilter ==
  /\ pc = "build"
  /\ filtered' = FilterTree(tree, static_props)
  /\ pc' = "filtered"
  /\ UNCHANGED <<tree, static_props, props, flat_leaf, naive_leaf, walk_vars, sel_vars, codec_vars, zig, first_run, entry_vars>>

FlatLook ==
  /\ pc = "filtered"
  /\ \E v \in FlatVectors :
       /\ props' = WithStatic(static_props, v)
       /\ flat_leaf' = FlatLookup(filtered.tree, WithStatic(static_props, v))
       /\ naive_leaf' = NaiveLookup(tree, WithStatic(static_props, v))
  /\ pc' = "looked"
  /\ UNCHANGED <<tree, static_props, filtered, walk_vars, sel_vars, codec_vars, zig, first_run, entry_vars>>

NextFlat == FlatSplit \/ FlatFilter \/ FlatLook

SpecFlat == InitFlat /\ [][NextFlat]_vars

\* C3: the leaf reached by flat-tree lookup on FilterTree(T, s) is the leaf
\* reached by naive descent of T, for every tree, static values and property
\* vector whose static entries are s.
C3_FlattenerEquivalence ==
  pc = "looked" => flat_leaf = naive_leaf

\* A static decision at the root, one between the two folded levels and one
\* directly above a leaf, in a tree with two flat levels.
StaticAt(i) == tree[i + 1].property \in 0..(kNumStaticProperties - 1)
DecisionAt(i) == tree[i + 1].property >= kNumStaticProperties

C3_Witness ==
  /\ pc = "looked"
  /\ flat_leaf = naive_leaf
  /\ flat_leaf.context > 0
  /\ Len(filtered.tree) = 5
  /\ StaticAt(0)
  /\ \E i \in InnerIds(tree) :
       /\ DecisionAt(i)
       /\ \E j \in {tree[i + 1].lchild, tree[i + 1].rchild} :
            /\ StaticAt(j)
            /\ \E k \in {tree[j + 1].lchild, tree[j + 1].rchild} : IsLeaf(tree[k + 1])

(***************************************************************************)
(* The WP-only range walk of EncodeModularChannelMAANS and                 *)
(* DecodeModularChannelMAANS                                               *)
(*                                                                         *)
(* The tables context_lookup, multipliers and offsets start zeroed and are *)
(* only written by the walk's leaf loop, which fills a range of slots with *)
(* one value.  A table is kept as the sequence of these fills in program   *)
(* order: slot k holds the value of the last fill that covers k, and 0 if  *)
(* none does.                                                              *)
(***************************************************************************)
Int8Min == -128
Int8Max == 127
Uint16Size == 65536

TableSlots == 0..(2 * kWPPropRange - 1)

TreeRange(begin, end, pos) == [begin |-> begin, end |-> end, pos |-> pos]
RootRange == TreeRange(-kWPPropRange - 1, kWPPropRange - 1, 0)

\* The range test without its test of the range's end.
RangeRejected_BeginOnly(cur) ==
  cur.begin < -kWPPropRange - 1 \/ cur.begin >= kWPPropRange - 1

\* "Tree is outside the allowed range, exit."

RangeRejected(cur) ==
  \/ cur.begin < -kWPPropRange - 1
  \/ cur.begin >= kWPPropRange - 1
  \/ cur.end > kWPPropRange - 1

\* The leaf test of the encoder's walk, without the predictor_offset != 0 part.
LeafRejectedEnc_Int8Only(node) ==
  \/ node.predictor_offset < Int8Min
  \/ node.predictor_offset > Int8Max
  \/ node.multiplier # 1

LeafRejectedEnc(node) ==
  \/ node.predictor_offset < Int8Min
  \/ node.predictor_offset > Int8Max
  \/ node.multiplier # 1
  \/ node.predictor_offset # 0

LeafRejectedDec(node) ==
  \/ node.predictor_offset < Int8Min
  \/ node.predictor_offset > Int8Max

LeafRejected(m, node) ==
  IF m = "enc" THEN LeafRejectedEnc(node) ELSE LeafRejectedDec(node)

\* for (int i = cur.begin + 1; i < cur.end + 1; i++) table[i + kWPPropRange] = ...
LeafFill(m, cur, node) ==
  [lo |-> cur.begin + 1 + kWPPropRange, hi |-> cur.end + kWPPropRange,
   ctx |-> IF m = "enc" THEN node.childID % Uint16Size ELSE node.childID,
   multiplier |-> IF m = "enc" THEN 0 ELSE node.multiplier,
   offset |-> IF m = "enc" THEN 0 ELSE node.predictor_offset]

\* The walk handing the slots of the <= side to the > side and back.
PushedRanges_SwappedSides(cur, node) ==
  (IF node.properties[1] >= kNumStaticProperties
   THEN <<TreeRange(node.splitvals[1], cur.end, node.childID + 2),
          TreeRange(node.splitval0, node.splitvals[1], node.childID + 3)>>
   ELSE <<TreeRange(node.splitval0, cur.end, node.childID + 2)>>)
  \o
  (IF node.properties[2] >= kNumStaticProperties
   THEN <<TreeRange(node.splitvals[2], node.splitval0, node.childID),
          TreeRange(cur.begin, node.splitvals[2], node.childID + 1)>>
   ELSE <<TreeRange(cur.begin, node.splitval0, node.childID)>>)

\* The ranges a decision node pushes, in push order.
PushedRanges(cur, node) ==
  (IF node.properties[1] >= kNumStaticProperties
   THEN <<TreeRange(node.splitvals[1], cur.end, node.childID),
          TreeRange(node.splitval0, node.splitvals[1], node.childID + 1)>>
   ELSE <<TreeRange(node.splitval0, cur.end, node.childID)>>)
  \o
  (IF node.properties[2] >= kNumStaticProperties
   THEN <<TreeRange(node.splitvals[2], node.splitval0, node.childID + 2),
          TreeRange(cur.begin, node.splitvals[2], node.childID + 3)>>
   ELSE <<TreeRange(cur.begin, node.splitval0, node.childID + 2)>>)

\* One iteration of while (!ranges.empty()).  w holds the walk's state:
\* is_wp_only, ranges, fills, the last dereferenced position, and whether the
\* loop was left by break.
WalkIter(m, ft, w) ==
  LET cur == w.ranges[Len(w.ranges)]
      rest == SubSeq(w.ranges, 1, Len(w.ranges) - 1)
  IN  IF RangeRejected(cur)
      THEN [w EXCEPT !.ranges = rest, !.is_wp_only = FALSE, !.broke = TRUE]
      ELSE LET node == ft[cur.pos + 1]
               at == [pos |-> cur.pos, size |-> Len(ft)]
           IN  IF node.property0 = -1
               THEN IF LeafRejected(m, node)
                    THEN [w EXCEPT !.ranges = rest, !.is_wp_only = FALSE,
                                   !.broke = TRUE, !.access = at]
                    ELSE [w EXCEPT !.ranges = rest, !.access = at,
                                   !.fills = Append(w.fills, LeafFill(m, cur, node))]
               ELSE [w EXCEPT !.ranges = rest \o PushedRanges(cur, node),
                              !.access = at]

\* Slot k of the tables after the fills.
RECURSIVE TableAt(_, _, _)
TableAt(fs, n, k) ==
  IF n = 0 THEN [ctx |-> 0, multiplier |-> 0, offset |-> 0]
  ELSE IF fs[n].lo <= k /\ k <= fs[n].hi
       THEN [ctx |-> fs[n].ctx, multiplier |-> fs[n].multiplier, offset |-> fs[n].offset]
       ELSE TableAt(fs, n - 1, k)

ContextLookupAt(fs, k) == TableAt(fs, Len(fs), k).ctx
MultipliersAt(fs, k) == TableAt(fs, Len(fs), k).multiplier
OffsetsAt(fs, k) == TableAt(fs, Len(fs), k).offset

\* pos = kWPPropRange + min(max(-kWPPropRange, properties[0]), kWPPropRange - 1)
WPTablePos(raw) == kWPPropRange + Min(Max(-kWPPropRange, raw), kWPPropRange - 1)

\* The decoder replaces every leaf's context id by its clustered context id.
RemapContexts(ft, cmap) ==
  [i \in 1..Len(ft) |->
     IF ft[i].property0 = -1 THEN [ft[i] EXCEPT !.childID = cmap[ft[i].childID + 1]]
     ELSE ft[i]]

(***************************************************************************)
(* Specification SpecWalk: a tree with arbitrary split values is built,    *)
(* filtered by the encoder or the decoder, walked range by range, and the  *)
(* tables are read for a pixel.                                            *)
(***************************************************************************)
MaxWalkInner == 2

WalkSplitvals == {-kWPPropRange - 2, -kWPPropRange - 1, 0,
                  kWPPropRange - 2, kWPPropRange - 1, kWPPropRange}
WalkDecisions == {<<kWPProp, sv>> : sv \in WalkSplitvals} \cup {<<2, 0>>}
WalkLeaves == {<<"Weighted", 0, 1>>, <<"Weighted", 5, 1>>, <<"Weighted", 0, 2>>,
               <<"Weighted", -129, 1>>}
WalkRawProps == {-2000, -kWPPropRange, 5, kWPPropRange - 1, 2000}
ClusterDivisors == {1, 2}
\* The walk is looked at under the identity context map; the clustered maps
\* are run by the channel codec.
WalkClusterDivisors == {1}

NumContexts(t) == (Len(t) + 1) \div 2

InitWalk ==
  /\ pc = "build"
  /\ tree = <<LeafNode(0, "Weighted", 0, 1)>>
  /\ static_props = <<0, 0>>
  /\ FlatIdle
  /\ WalkIdle
  /\ SelIdle
  /\ CodecIdle
  /\ ZigIdle
  /\ first_run = NoRun
  /\ EntryIdle

WalkSplit ==
  /\ pc = "build"
  /\ \E i \in LeafIds(tree), d \in WalkDecisions, k \in WalkLeaves :
       /\ CanSplit(tree, i, MaxWalkInner)
       /\ tree' = SplitLeafAt(tree, i, d[1], d[2], k[1], k[2], k[3])
  /\ UNCHANGED <<pc, static_props, flat_vars, walk_vars, sel_vars, codec_vars, zig, first_run, entry_vars>>

\* FilterTree and the set-up of the walk.
WalkBegin(m, cmap) ==
  /\ pc = "build"
  /\ mode' = m
  /\ context_map' = cmap
  /\ filtered' = FilterTree(tree, static_props)
  /\ flat_tree' = IF m = "dec" THEN RemapContexts(filtered'.tree, cmap)
                  ELSE filtered'.tree
  /\ is_wp_only' = filtered'.wp_only
  /\ ranges' = IF filtered'.wp_only THEN <<RootRange>> ELSE <<>>
  /\ fills' = <<>>
  /\ pc' = IF filtered'.wp_only THEN "walk" ELSE "walked"
  /\ UNCHANGED <<tree, static_props, props, flat_leaf, naive_leaf, walk_access, wp_read,
                 sel_vars, codec_vars, zig, first_run, entry_vars>>

WalkBeginEnc == WalkBegin("enc", <<>>)

WalkBeginDec ==
  \E d \in WalkClusterDivisors :
    WalkBegin("dec", [c \in 1..NumContexts(tree) |-> (c - 1) \div d])

WalkStep ==
  /\ pc = "walk"
  /\ ranges # <<>>
  /\ LET w == WalkIter(mode, flat_tree,
                       [is_wp_only |-> is_wp_only, ranges |-> ranges, fills |-> fills,
                        access |-> walk_access, broke |-> FALSE])
     IN  /\ is_wp_only' = w.is_wp_only
         /\ ranges' = w.ranges
         /\ fills' = w.fills
         /\ walk_access' = w.access
         /\ pc' = IF w.broke THEN "walked" ELSE "walk"
  /\ UNCHANGED <<tree, static_props, flat_vars, mode, context_map, flat_tree, wp_read,
                 sel_vars, codec_vars, zig, first_run, entry_vars>>

WalkExit ==
  /\ pc = "walk"
  /\ ranges = <<>>
  /\ pc' = "walked"
  /\ UNCHANGED <<tree, static_props, flat_vars, walk_vars, sel_vars, codec_vars, zig, first_run, entry_vars>>

\* The per-pixel table read of the fast path, for a WP property value.
WalkRead ==
  /\ pc = "walked"
  /\ is_wp_only
  /\ \E raw \in WalkRawProps :
       wp_read' = [raw |-> raw, pos |-> WPTablePos(raw),
                   ctx |-> ContextLookupAt(fills, WPTablePos(raw))]
  /\ pc' = "read"
  /\ UNCHANGED <<tree, static_props, flat_vars, mode, context_map, flat_tree,
                 is_wp_only, ranges, fills, walk_access, sel_vars, codec_vars, zig, first_run, entry_vars>>

NextWalk == WalkSplit \/ WalkBeginEnc \/ WalkBeginDec \/ WalkStep \/ WalkExit \/ WalkRead

SpecWalk == InitWalk /\ [][NextWalk]_vars

WPVector(p) == WithStatic(static_props, [i \in {kWPProp} |-> p])
ClampedWPProps == (-kWPPropRange)..(kWPPropRange - 1)

\* What the tables hold for the clamped WP property value p, against the leaf
\* that flat-tree lookup reaches for p.
TableMatchesLookup(p) ==
  LET leaf == FlatLookup(flat_tree, WPVector(p))
      k == p + kWPPropRange
  IN  /\ ContextLookupAt(fills, k) = leaf.context
      /\ mode = "dec" => /\ MultipliersAt(fills, k) = leaf.multiplier
                         /\ OffsetsAt(fills, k) = leaf.predictor_offset

\* C4: when the range walk ends with the fast path enabled, the table entry of
\* every clamped WP property value p is the context id (decoder: and the
\* multiplier and offset) of the leaf flat-tree lookup reaches for p, also for
\* trees whose nested split values are redundant or out of order.
C4_FastPathEquivalence ==
  (pc = "walked" /\ is_wp_only) => \A p \in ClampedWPProps : TableMatchesLookup(p)

\* The split values that bound a decision region of the flat tree.
RegionBounds(ft) ==
  UNION {{ft[n].splitval0}
         \cup {ft[n].splitvals[i] : i \in {j \in 1..2 :
                                            ft[n].properties[j] >= kNumStaticProperties}} :
         n \in {k \in 1..Len(ft) : ft[k].property0 # -1}}
FlatLeaves(ft) == {ft[n] : n \in {k \in 1..Len(ft) : ft[k].property0 = -1}}

RegionsInRange(ft) ==
  \A b \in RegionBounds(ft) : -kWPPropRange - 1 <= b /\ b <= kWPPropRange - 2
OffsetsInInt8(ft) ==
  \A l \in FlatLeaves(ft) : Int8Min <= l.predictor_offset /\ l.predictor_offset <= Int8Max
MultipliersOne(ft) == \A l \in FlatLeaves(ft) : l.multiplier = 1
OffsetsZero(ft) == \A l \in FlatLeaves(ft) : l.predictor_offset = 0

\* C5 as claimed: the encoder takes the fast path exactly when wp_only, the
\* regions are in range, every leaf offset is in [-128, 127] and every leaf
\* multiplier is 1; the decoder exactly when the first three hold.
C5_Path1SelectionAsClaimed ==
  pc = "walked" =>
    (is_wp_only <=> /\ filtered.wp_only
                    /\ RegionsInRange(flat_tree)
                    /\ OffsetsInInt8(flat_tree)
                    /\ mode = "enc" => MultipliersOne(flat_tree))

\* C5 (amended): the encoder takes the fast path exactly when wp_only, the
\* regions are in range, every leaf offset is 0 and every leaf multiplier is 1;
\* the decoder exactly when wp_only, the regions are in range and every leaf
\* offset is in [-128, 127].
C5_Path1Selection ==
  pc = "walked" =>
    (is_wp_only <=> /\ filtered.wp_only
                    /\ RegionsInRange(flat_tree)
                    /\ IF mode = "enc"
                       THEN OffsetsZero(flat_tree) /\ MultipliersOne(flat_tree)
                       ELSE OffsetsInInt8(flat_tree))

\* The walk has finished on a WP-only tree with two decision levels, once with
\* the fast path kept and once with it dropped because of a leaf.
C5_Witness ==
  /\ pc = "walked"
  /\ mode = "enc"
  /\ filtered.wp_only
  /\ Len(flat_tree) = 5
  /\ RegionsInRange(flat_tree)
  /\ OffsetsInInt8(flat_tree)
  /\ MultipliersOne(flat_tree)
  /\ ~OffsetsZero(flat_tree)
  /\ ~is_wp_only

\* C6: every slot the walk fills and every slot a pixel reads is inside
\* [0, 2*kWPPropRange), every flat-tree position the walk dereferences is
\* inside the flat tree, and a tree with a decision split value outside
\* [-kWPPropRange-1, kWPPropRange-2] never keeps the fast path.
C6_WalkMemorySafety ==
  /\ \A n \in 1..Len(fills) :
       fills[n].lo <= fills[n].hi =>
         fills[n].lo \in TableSlots /\ fills[n].hi \in TableSlots
  /\ walk_access.pos >= 0 /\ walk_access.pos < walk_access.size
  /\ wp_read.pos \in TableSlots
  /\ (pc \in {"walked", "read"} /\ is_wp_only) => RegionsInRange(flat_tree)

\* A crafted tree in the decoder: the root splits at 0 and the decision on its
\* > side at kWPPropRange.  The walk has filled the slots of the <= side, then
\* popped the range (0, kWPPropRange], whose end is beyond the table, and left
\* the fast path without filling it.
C6_Witness ==
  /\ pc = "walked"
  /\ mode = "dec"
  /\ filtered.wp_only
  /\ ~is_wp_only
  /\ RegionBounds(flat_tree) = {0, kWPPropRange}
  /\ OffsetsInInt8(flat_tree)
  /\ Len(fills) = 1
  /\ fills[1].lo = 0
  /\ fills[1].hi = kWPPropRange
  /\ ranges # <<>>

(***************************************************************************)
(* The channel loops of ModularEncode and ModularDecode                    *)
(***************************************************************************)
\* What one iteration of a channel loop does with channel i: "skip" (continue),
\* "stop" (break) or "visit" (the loop body is reached).
EncGatherIter(ch, meta, opt, i) ==
  IF ch[i + 1][1] = 0 \/ ch[i + 1][2] = 0 THEN "skip"
  ELSE IF i >= meta /\ (ch[i + 1][1] > opt.max_chan_size \/ ch[i + 1][2] > opt.max_chan_size)
       THEN "stop"
       ELSE "visit"

EncCodeIter(ch, meta, opt, i) ==
  IF ch[i + 1][1] = 0 \/ ch[i + 1][2] = 0 THEN "skip"
  ELSE IF i >= meta /\ (ch[i + 1][1] > opt.max_chan_size \/ ch[i + 1][2] > opt.max_chan_size)
       THEN "stop"
       ELSE "visit"

\* The num_chans loop skipping an oversized channel instead of stopping at it.
DecCountIter_SkipOversized(ch, meta, opt, i) ==
  IF ch[i + 1][1] = 0 \/ ch[i + 1][2] = 0 THEN "skip"
  ELSE IF i >= meta /\ (ch[i + 1][1] > opt.max_chan_size \/ ch[i + 1][2] > opt.max_chan_size)
       THEN "skip"
       ELSE "visit"

DecCountIter(ch, meta, opt, i) ==
  IF ch[i + 1][1] = 0 \/ ch[i + 1][2] = 0 THEN "skip"
  ELSE IF i >= meta /\ (ch[i + 1][1] > opt.max_chan_size \/ ch[i + 1][2] > opt.max_chan_size)
       THEN "stop"
       ELSE "visit"

DecDistIter(ch, meta, opt, i) ==
  IF ch[i + 1][1] = 0 \/ ch[i + 1][2] = 0 THEN "skip"
  ELSE IF i >= meta /\ (ch[i + 1][1] > opt.max_chan_size \/ ch[i + 1][2] > opt.max_chan_size)
       THEN "stop"
       ELSE "visit"

DecCodeIter(ch, meta, opt, i) ==
  IF ch[i + 1][1] = 0 \/ ch[i + 1][2] = 0 THEN "skip"
  ELSE IF i >= meta /\ (ch[i + 1][1] > opt.max_chan_size \/ ch[i + 1][2] > opt.max_chan_size)
       THEN "stop"
       ELSE "visit"

\* for (size_t i = options.skipchannels; i < nb_channels; i++): one evaluation
\* of the loop condition and, if it holds, one iteration with outcome what.
LoopStep(name, what, next) ==
  IF loop_i >= Len(channel) \/ what = "stop"
  THEN /\ finished' = finished \cup {name}
       /\ pc' = next
       /\ loop_i' = options.skipchannels
       /\ UNCHANGED visited
  ELSE /\ visited' = IF what = "visit"
                     THEN [visited EXCEPT ![name] = Append(@, loop_i)]
                     ELSE visited
       /\ loop_i' = loop_i + 1
       /\ UNCHANGED <<pc, finished>>

(***************************************************************************)
(* Specification SpecSel: one image is run through ModularEncode and       *)
(* ModularDecode, channel loop by channel loop.                            *)
(***************************************************************************)
MaxChannels == 4

SelDims == {<<0, 2>>, <<2, 0>>, <<1, 2>>, <<3, 1>>, <<1, 3>>}
SelMaxChanSizes == {2}
SelSkips == {0, 1}
SelMetas == {0, 1, 2}
SelCallers == {"learn", "gather", "tree"}

InitSel ==
  /\ \E n \in 1..MaxChannels : channel \in [1..n -> SelDims]
  /\ nb_meta_channels \in SelMetas
  /\ options \in [skipchannels : SelSkips, max_chan_size : SelMaxChanSizes]
  /\ caller \in SelCallers
  /\ loop_i = options.skipchannels
  /\ visited = NoVisits
  /\ finished = {}
  /\ pc = IF caller = "tree" THEN "enc_code" ELSE "enc_gather"
  /\ tree = <<>>
  /\ static_props = <<0, 0>>
  /\ FlatIdle
  /\ WalkIdle
  /\ CodecIdle
  /\ ZigIdle
  /\ first_run = NoRun
  /\ EntryIdle

\* ModularEncode, "if (tree == nullptr)": the gathering loop; a caller that
\* only gathers data gets its return here.
EncGatherLoop ==
  /\ pc = "enc_gather"
  /\ LoopStep("enc_gather", IF loop_i < Len(channel)
                     THEN EncGatherIter(channel, nb_meta_channels, options, loop_i)
                     ELSE "end",
              IF caller = "gather" THEN "dec_count" ELSE "enc_code")
  /\ UNCHANGED <<tree, static_props, flat_vars, walk_vars, channel, nb_meta_channels,
                 options, caller, codec_vars, zig, first_run, entry_vars>>

EncCodeLoop ==
  /\ pc = "enc_code"
  /\ LoopStep("enc_code", IF loop_i < Len(channel)
                     THEN EncCodeIter(channel, nb_meta_channels, options, loop_i)
                     ELSE "end", "dec_count")
  /\ UNCHANGED <<tree, static_props, flat_vars, walk_vars, channel, nb_meta_channels,
                 options, caller, codec_vars, zig, first_run, entry_vars>>

\* ModularDecode: the num_chans loop, and "if (num_chans == 0) return true".
DecCountLoop ==
  /\ pc = "dec_count"
  /\ LoopStep("dec_count", IF loop_i < Len(channel)
                     THEN DecCountIter(channel, nb_meta_channels, options, loop_i)
                     ELSE "end",
              IF Len(visited.dec_count) = 0 THEN "done" ELSE "dec_dist")
  /\ UNCHANGED <<tree, static_props, flat_vars, walk_vars, channel, nb_meta_channels,
                 options, caller, codec_vars, zig, first_run, entry_vars>>

DecDistLoop ==
  /\ pc = "dec_dist"
  /\ LoopStep("dec_dist", IF loop_i < Len(channel)
                     THEN DecDistIter(channel, nb_meta_channels, options, loop_i)
                     ELSE "end", "dec_code")
  /\ UNCHANGED <<tree, static_props, flat_vars, walk_vars, channel, nb_meta_channels,
                 options, caller, codec_vars, zig, first_run, entry_vars>>

DecCodeLoop ==
  /\ pc = "dec_code"
  /\ LoopStep("dec_code", IF loop_i < Len(channel)
                     THEN DecCodeIter(channel, nb_meta_channels, options, loop_i)
                     ELSE "end", "done")
  /\ UNCHANGED <<tree, static_props, flat_vars, walk_vars, channel, nb_meta_channels,
                 options, caller, codec_vars, zig, first_run, entry_vars>>

NextSel == EncGatherLoop \/ EncCodeLoop \/ DecCountLoop \/ DecDistLoop \/ DecCodeLoop

SpecSel == InitSel /\ [][NextSel]_vars

\* The channel selection rule, as stated: the non-empty channels i >= skipchannels
\* before the first non-empty channel with i >= nb_meta_channels and w or h >
\* max_chan_size, in increasing order.
NonEmpty(i) == channel[i + 1][1] # 0 /\ channel[i + 1][2] # 0
Oversized(i) ==
  /\ i >= nb_meta_channels
  /\ channel[i + 1][1] > options.max_chan_size \/ channel[i + 1][2] > options.max_chan_size
Stoppers == {i \in options.skipchannels..(Len(channel) - 1) : NonEmpty(i) /\ Oversized(i)}
StopIndex ==
  IF Stoppers = {} THEN Len(channel)
  ELSE CHOOSE i \in Stoppers : \A j \in Stoppers : i <= j
SelectedSet == {i \in options.skipchannels..(StopIndex - 1) : NonEmpty(i)}

RECURSIVE Ascending(_)
Ascending(S) ==
  IF S = {} THEN <<>>
  ELSE LET m == CHOOSE i \in S : \A j \in S : i <= j
       IN  <<m>> \o Ascending(S \ {m})

SelectedChannels == Ascending(SelectedSet)

\* C2: every channel loop of ModularEncode and ModularDecode that has run
\* visited exactly the channels of the selection rule, in order.
C2_ChannelSelection ==
  \A name \in finished : visited[name] = SelectedChannels

\* All five loops have run on an image with an empty channel before a coded
\* one and a small channel after the stopping channel.
C2_Witness ==
  /\ pc = "done"
  /\ finished = {"enc_gather", "enc_code", "dec_count", "dec_dist", "dec_code"}
  /\ Len(SelectedChannels) >= 1
  /\ Stoppers # {}
  /\ \E i \in 0..(Len(channel) - 1) : ~NonEmpty(i) /\ i < SelectedChannels[1]
                                       /\ i >= options.skipchannels
  /\ \E i \in (StopIndex + 1)..(Len(channel) - 1) : NonEmpty(i) /\ ~Oversized(i)

(***************************************************************************)
(* Integer types.  pixel_type is a signed integer of PixelBits bits and    *)
(* pixel_type_w one of twice that width.  The pixel type is wider than the *)
(* int8_t of the fast path's offsets, as int32_t is: a leaf offset is      *)
(* never a limit of the pixel type.                                        *)
(***************************************************************************)
PixelBits == 12

PixelSize == 2 ^ PixelBits
PixelMin == -(2 ^ (PixelBits - 1))
PixelMax == 2 ^ (PixelBits - 1) - 1
WideSize == 2 ^ (2 * PixelBits)
WideMin == -(2 ^ (2 * PixelBits - 1))

\* Conversion of an integer to pixel_type / pixel_type_w: the value modulo the
\* type's size.
ToPixel(v) == ((v - PixelMin) % PixelSize) + PixelMin
ToWide(v) == ((v - WideMin) % WideSize) + WideMin

ClampPixel(v) == Max(PixelMin, Min(PixelMax, v))

\* PackSigned(x) = (x < 0) ? (-2*x - 1) : (2*x)
PackSigned(x) == IF x < 0 THEN -2 * x - 1 ELSE 2 * x

\* Its inverse: even symbols are the non-negative values, odd ones the negative.
UnpackSigned(v) == IF v % 2 = 0 THEN v \div 2 ELSE -(v \div 2) - 1

\* SaturatingAdd<pixel_type>(a, b): the sum in the wide type, saturated to the
\* pixel type.
SaturatingAdd(a, b) == ClampPixel(ToWide(a + b))

\* The symbol the encoder puts in a token for a residual: taking the magnitude
\* instead of the zig-zag code.
EncSymbol_Magnitude(residual) == PackSigned(IF residual < 0 THEN -residual ELSE residual)

\* tokens->emplace_back(ctx_id, PackSigned(residual)): PackSigned takes a
\* value of the pixel type's width, so a residual held in the wide type is
\* cut to that width by the call.
EncSymbol(residual) == PackSigned(ToPixel(residual))

\* UnpackSigned(v), v the symbol read with ReadHybridUintClustered
DecResidual(v) == UnpackSigned(v)

(***************************************************************************)
(* Specification SpecZig: one residual of the pixel type is packed by the  *)
(* encoder and unpacked by the decoder.                                    *)
(***************************************************************************)
InitZig ==
  /\ zig \in [stage : {"in"}, x : PixelMin..PixelMax, sym : {0}, back : {0}]
  /\ pc = "zig"
  /\ first_run = NoRun
  /\ tree = <<>>
  /\ static_props = <<0, 0>>
  /\ FlatIdle
  /\ WalkIdle
  /\ SelIdle
  /\ CodecIdle
  /\ EntryIdle

ZigPack ==
  /\ zig.stage = "in"
  /\ zig' = [zig EXCEPT !.stage = "packed", !.sym = EncSymbol(zig.x)]
  /\ UNCHANGED <<pc, tree, static_props, flat_vars, walk_vars, sel_vars, codec_vars,
                 first_run, entry_vars>>

ZigUnpack ==
  /\ zig.stage = "packed"
  /\ zig' = [zig EXCEPT !.stage = "unpacked", !.back = DecResidual(zig.sym)]
  /\ UNCHANGED <<pc, tree, static_props, flat_vars, walk_vars, sel_vars, codec_vars,
                 first_run, entry_vars>>

NextZig == ZigPack \/ ZigUnpack

SpecZig == InitZig /\ [][NextZig]_vars

\* C10: for every x of the pixel type, the packed symbol is the zig-zag code of x,
\* is non-negative and fits the unsigned type of the same width, and unpacking
\* it gives x back.
C10_ZigZagLaw ==
  /\ zig.stage \in {"packed", "unpacked"} =>
       /\ zig.sym = (IF zig.x < 0 THEN -2 * zig.x - 1 ELSE 2 * zig.x)
       /\ zig.sym >= 0
       /\ zig.sym < PixelSize
  /\ zig.stage = "unpacked" => zig.back = zig.x

\* The most negative value has been packed and unpacked.
C10_Witness ==
  /\ zig.stage = "unpacked"
  /\ zig.x = PixelMin
  /\ zig.sym = PixelSize - 1

(***************************************************************************)
(* The channel codec: neighbourhood, weighted predictor, predictor bank    *)
(***************************************************************************)
\* Neighbors with topright falling back to left.
Neighbors_TopRightFromLeft(px, w, x, y) ==
  LET At(xx, yy) == px[yy * w + xx + 1]
      left == IF x > 0 THEN At(x - 1, y) ELSE IF y > 0 THEN At(x, y - 1) ELSE 0
      top == IF y > 0 THEN At(x, y - 1) ELSE left
  IN  [left |-> left,
       top |-> top,
       topleft |-> IF x > 0 /\ y > 0 THEN At(x - 1, y - 1) ELSE left,
       topright |-> IF x + 1 < w /\ y > 0 THEN At(x + 1, y - 1) ELSE left,
       toptop |-> IF y > 1 THEN At(x, y - 2) ELSE top]

\* The causal neighbours of (x, y) in a channel of width w whose pixels, in
\* raster order, are px (on decode: the pixels written so far).
Neighbors(px, w, x, y) ==
  LET At(xx, yy) == px[yy * w + xx + 1]
      left == IF x > 0 THEN At(x - 1, y) ELSE IF y > 0 THEN At(x, y - 1) ELSE 0
      top == IF y > 0 THEN At(x, y - 1) ELSE left
  IN  [left |-> left,
       top |-> top,
       topleft |-> IF x > 0 /\ y > 0 THEN At(x - 1, y - 1) ELSE left,
       topright |-> IF x + 1 < w /\ y > 0 THEN At(x + 1, y - 1) ELSE top,
       toptop |-> IF y > 1 THEN At(x, y - 2) ELSE top]

\* The positions <<column, row>> the five expressions dereference at (x, y):
\* r[x - 1], r + x - onerow, r + x - 1 - onerow, r + x + 1 - onerow and
\* r + x - onerow - onerow, each only under its condition.
NeighborReads(w, x, y) ==
  (IF x > 0 THEN {<<x - 1, y>>} ELSE IF y > 0 THEN {<<x, y - 1>>} ELSE {})
  \cup (IF y > 0 THEN {<<x, y - 1>>} ELSE {})
  \cup (IF x > 0 /\ y > 0 THEN {<<x - 1, y - 1>>} ELSE {})
  \cup (IF x + 1 < w /\ y > 0 THEN {<<x + 1, y - 1>>} ELSE {})
  \cup (IF y > 1 THEN {<<x, y - 2>>} ELSE {})

\* weighted::State, reduced to one sub-predictor and the last prediction
\* error: Predict gives a guess from the neighbours and the error history and
\* the error as the WP property; UpdateErrors records the error of the guess.
WPInit == [err |-> 0, guess |-> 0]

WPPredict(st, nb) ==
  LET g == ClampPixel(nb.left + nb.topright - nb.top + st.err)
  IN  [state |-> [st EXCEPT !.guess = g], guess |-> g, property |-> st.err]

WPUpdateErrors(st, actual) == [st EXCEPT !.err = actual - st.guess]

\* The WP property as a tree property: clamped to [-kWPPropRange, kWPPropRange - 1].
ClampWPProperty(v) == Min(Max(-kWPPropRange, v), kWPPropRange - 1)

\* The predictor bank.
PredictorGuess(predictor, nb, wp_guess) ==
  CASE predictor = "Zero" -> 0
    [] predictor = "Left" -> nb.left
    [] predictor = "Top" -> nb.top
    [] predictor = "Gradient" ->
         Max(Min(nb.left, nb.top),
             Min(Max(nb.left, nb.top), nb.left + nb.top - nb.topleft))
    [] predictor = "Weighted" -> wp_guess

\* The property vector of a pixel: static properties, y, and the WP property.
kYProp == 2

TreeProps(s, y, wp_property) ==
  WithStatic(s, [i \in kNumStaticProperties..(kNumNonrefProperties - 1) |->
                   IF i = kYProp THEN y
                   ELSE IF i = kWPProp THEN wp_property ELSE 0])

\* PredictTreeWP / PredictTreeNoWP: look the leaf up, predict, add the offset.
PredictTree(flat, s, nb, y, wp) ==
  LET leaf == FlatLookup(flat, TreeProps(s, y, ClampWPProperty(wp.property)))
      prediction == PredictorGuess(leaf.predictor, nb, wp.guess)
  IN  [context |-> leaf.context, multiplier |-> leaf.multiplier,
       offset |-> leaf.predictor_offset, prediction |-> prediction,
       guess |-> ToWide(prediction + leaf.predictor_offset)]

NoWP == [guess |-> 0, property |-> 0]

(***************************************************************************)
(* The channel codec: the whole range walk, and path selection             *)
(***************************************************************************)
RECURSIVE WalkLoop(_, _, _)
WalkLoop(m, ft, w) ==
  IF w.ranges = <<>> \/ w.broke THEN w
  ELSE CHOOSE r \in {WalkLoop(m, ft, n) : n \in {WalkIter(m, ft, w)}} : TRUE

\* if (is_wp_only) { ... while (!ranges.empty()) ... }
WalkRun(m, ft, wp_only) ==
  IF wp_only
  THEN WalkLoop(m, ft, [is_wp_only |-> TRUE, ranges |-> <<RootRange>>, fills |-> <<>>,
                        access |-> NoAccess, broke |-> FALSE])
  ELSE [is_wp_only |-> FALSE, ranges |-> <<>>, fills |-> <<>>, access |-> NoAccess,
        broke |-> FALSE]

\* The encoder's if / else if chain over the filtered tree.
EncPath(ft, wp_only) ==
  IF wp_only THEN "wp_fast"
  ELSE IF Len(ft) = 1 /\ ft[1].predictor = "Zero" /\ ft[1].multiplier = 1
          /\ ft[1].predictor_offset = 0
       THEN "leaf_zero"
       ELSE IF Len(ft) = 1 /\ ft[1].predictor # "Weighted" /\ ft[1].multiplier = 1
               /\ ft[1].predictor_offset = 0
            THEN "leaf_nowp"
            ELSE "tree_wp"

\* The decoder's chain with the test of tree_has_wp_prop_or_pred left out.
DecPath_NoWPCheck(ft, wp_only, use_wp) ==
  IF wp_only THEN "wp_fast"
  ELSE IF Len(ft) = 1
       THEN IF ft[1].predictor = "Zero" THEN "leaf_zero"
            ELSE IF ft[1].predictor # "Weighted" THEN "leaf_nowp"
            ELSE "leaf_wp"
       ELSE "tree_nowp"

\* The decoder's if / else if chain.
DecPath(ft, wp_only, use_wp) ==
  IF wp_only THEN "wp_fast"
  ELSE IF Len(ft) = 1
       THEN IF ft[1].predictor = "Zero" THEN "leaf_zero"
            ELSE IF ft[1].predictor # "Weighted" THEN "leaf_nowp"
            ELSE "leaf_wp"
       ELSE IF ~use_wp THEN "tree_nowp"
            ELSE "tree_wp"

\* The paths that keep a weighted::State.
WPPaths == {"wp_fast", "leaf_wp", "tree_wp"}

\* The decoder's stores, path by path.
\* r[x] = SaturatingAdd(UnpackSigned(v) * multipliers[pos] + offsets[pos], guess),
\* with the product taken in the pixel type.
StoreWPFast_NarrowProduct(v, multiplier, offset, guess) ==
  SaturatingAdd(ToWide(ToPixel(DecResidual(v) * multiplier) + offset), guess)

StoreWPFast(v, multiplier, offset, guess) ==
  SaturatingAdd(ToWide(DecResidual(v) * multiplier + offset), guess)

\* SaturatingAdd(UnpackSigned(v) * multiplier, offset)
StoreLeafZero(v, multiplier, offset) ==
  SaturatingAdd(ToWide(DecResidual(v) * multiplier), offset)

\* g = guess + offset; SaturatingAdd(UnpackSigned(v) * multiplier, g)
StoreLeaf(v, multiplier, offset, guess) ==
  SaturatingAdd(ToWide(DecResidual(v) * multiplier), ToWide(guess + offset))

\* SaturatingAdd(UnpackSigned(v) * res.multiplier, res.guess)
StoreTree(v, res) ==
  SaturatingAdd(ToWide(DecResidual(v) * res.multiplier), res.guess)

(***************************************************************************)
(* The channel codec: one pixel of the encoder, one pixel of the decoder   *)
(***************************************************************************)
\* int32_t residual = r[x] - guess: the difference when it fits the type; when
\* it does not, signed overflow leaves the build the wrapped value or a trap.
Trap == PixelSize

ResidualOutcomes(cur, guess) ==
  IF cur - guess \in PixelMin..PixelMax THEN {cur - guess}
  ELSE {ToPixel(cur - guess), Trap}

Aborted == [abort |-> TRUE]

Emitted(ctx, sym, wp, called) ==
  [abort |-> FALSE, ctx |-> ctx, sym |-> sym, wp |-> wp, called |-> called]

\* What one iteration of the encoder's inner loop can do at (e.x, e.y) of a
\* channel of width w with pixels px and static properties s.
EncOutcomes(e, px, w, s) ==
  LET cur == px[e.y * w + e.x + 1]
      nb == Neighbors(px, w, e.x, e.y)
      pr == WPPredict(e.wp, nb)
  IN  CASE e.path = "wp_fast" ->
             LET ctx == ContextLookupAt(e.fills, WPTablePos(pr.property))
             IN  {IF r = Trap THEN Aborted
                  ELSE Emitted(ctx, EncSymbol(r), WPUpdateErrors(pr.state, cur), TRUE)
                  : r \in ResidualOutcomes(cur, pr.guess)}
        [] e.path = "leaf_zero" ->
             {Emitted(e.flat[1].childID, EncSymbol(cur), e.wp, FALSE)}
        [] e.path = "leaf_nowp" ->
             LET guess == PredictorGuess(e.flat[1].predictor, nb, 0)
                 residual == ToWide(cur - guess)
             IN  {Emitted(e.flat[1].childID, EncSymbol(residual), e.wp, FALSE)}
        [] e.path = "tree_wp" ->
             LET res == PredictTree(e.flat, s, nb, e.y, pr)
                 residual == ToWide(cur - res.guess)
             IN  IF residual % res.multiplier # 0 THEN {Aborted}
                 ELSE {Emitted(res.context, EncSymbol(residual \div res.multiplier),
                               WPUpdateErrors(pr.state, cur), TRUE)}

\* tokens->emplace_back(...) putting the token in front.
EmplaceBack_Front(toks, tok) == <<tok>> \o toks

EmplaceBack(toks, tok) == Append(toks, tok)

\* for (y ...) for (x ...): the position after (x, y).
NextPos(c, w) ==
  IF c.x + 1 < w THEN [c EXCEPT !.x = c.x + 1]
  ELSE [c EXCEPT !.x = 0, !.y = c.y + 1]

WPCalls(called, x, y, actual) ==
  IF called
  THEN <<[op |-> "Predict", x |-> x, y |-> y, val |-> 0],
         [op |-> "UpdateErrors", x |-> x, y |-> y, val |-> actual]>>
  ELSE <<>>

\* What the decoder has before it reads the symbol of (d.x, d.y): the context
\* to read with, and the leaf values and prediction to reconstruct with.
DecPrepare(d, px, w, s) ==
  LET nb == Neighbors(px, w, d.x, d.y)
      pr == WPPredict(d.wp, nb)
      leaf == d.flat[1]
  IN  CASE d.path = "wp_fast" ->
             LET pos == WPTablePos(pr.property)
             IN  [ctx |-> ContextLookupAt(d.fills, pos),
                  multiplier |-> MultipliersAt(d.fills, pos),
                  offset |-> OffsetsAt(d.fills, pos),
                  prediction |-> pr.guess, guess |-> pr.guess,
                  wp |-> pr.state, called |-> TRUE]
        [] d.path = "leaf_zero" ->
             [ctx |-> leaf.childID, multiplier |-> leaf.multiplier,
              offset |-> leaf.predictor_offset, prediction |-> 0, guess |-> 0,
              wp |-> d.wp, called |-> FALSE]
        [] d.path = "leaf_nowp" ->
             LET g == PredictorGuess(leaf.predictor, nb, 0)
             IN  [ctx |-> leaf.childID, multiplier |-> leaf.multiplier,
                  offset |-> leaf.predictor_offset, prediction |-> g, guess |-> g,
                  wp |-> d.wp, called |-> FALSE]
        [] d.path = "leaf_wp" ->
             LET g == PredictorGuess(leaf.predictor, nb, pr.guess)
             IN  [ctx |-> leaf.childID, multiplier |-> leaf.multiplier,
                  offset |-> leaf.predictor_offset, prediction |-> g, guess |-> g,
                  wp |-> pr.state, called |-> TRUE]
        [] d.path = "tree_nowp" ->
             LET res == PredictTree(d.flat, s, nb, d.y, NoWP)
             IN  [ctx |-> res.context, multiplier |-> res.multiplier,
                  offset |-> res.offset, prediction |-> res.prediction,
                  guess |-> res.guess, wp |-> d.wp, called |-> FALSE]
        [] d.path = "tree_wp" ->
             LET res == PredictTree(d.flat, s, nb, d.y, pr)
             IN  [ctx |-> res.context, multiplier |-> res.multiplier,
                  offset |-> res.offset, prediction |-> res.prediction,
                  guess |-> res.guess, wp |-> pr.state, called |-> TRUE]

\* The pixel the decoder stores for symbol v.
DecStore(d, pre, v) ==
  CASE d.path = "wp_fast" -> StoreWPFast(v, pre.multiplier, pre.offset, pre.guess)
    [] d.path = "leaf_zero" -> StoreLeafZero(v, pre.multiplier, pre.offset)
    [] d.path \in {"leaf_nowp", "leaf_wp"} ->
         StoreLeaf(v, pre.multiplier, pre.offset, pre.guess)
    [] d.path \in {"tree_nowp", "tree_wp"} -> StoreTree(v, pre)

(***************************************************************************)
(* Specification SpecCodec: an image of one or two channels is encoded     *)
(* channel by channel and pixel by pixel with a tree, and the tokens are   *)
(* decoded with the same tree; or the decoder is run on a crafted stream.  *)
(***************************************************************************)
MaxPixels == 4

CodecPixels == {PixelMin, 1}
CraftedSymbols == {0, PixelSize - 2, PixelSize - 1}
CodecGroupId == 0
CodecMaxChanSize == MaxPixels

CodecDims == {d \in (1..MaxPixels) \X (1..MaxPixels) : d[1] * d[2] <= MaxPixels}
CodecShapes ==
  {<<d>> : d \in CodecDims}
  \cup {<<d[1], d[2]>> : d \in {e \in CodecDims \X CodecDims :
                                  e[1][1] * e[1][2] + e[2][1] * e[2][2] <= MaxPixels}}

Leaf0(predictor, offset, multiplier) == <<LeafNode(0, predictor, offset, multiplier)>>

\* Trees for every path of encoder and decoder.
CodecTrees ==
  { Leaf0("Zero", 0, 1),
    Leaf0("Zero", 3, 1),
    Leaf0("Zero", 0, 2),
    Leaf0("Left", 0, 1),
    Leaf0("Gradient", -2, 1),
    Leaf0("Weighted", 0, 1),
    SplitLeafAt(Leaf0("Weighted", 0, 1), 0, kWPProp, 0, "Weighted", 0, 1),
    SplitLeafAt(Leaf0("Weighted", 5, 1), 0, kWPProp, 0, "Weighted", 0, 1),
    SplitLeafAt(SplitLeafAt(Leaf0("Weighted", 5, 1), 0, kWPProp, 0, "Weighted", 0, 1),
                1, kWPProp, -1, "Weighted", 0, 1),
    SplitLeafAt(Leaf0("Left", 0, 1), 0, kYProp, 0, "Zero", 0, 1),
    SplitLeafAt(Leaf0("Weighted", 0, 1), 0, kYProp, 0, "Left", 1, 1),
    SplitLeafAt(Leaf0("Left", 0, 1), 0, 0, 0, "Weighted", 0, 1),
    SplitLeafAt(Leaf0("Weighted", 0, 1), 0, kWPProp, 0, "Weighted", 0, 2) }

\* Trees only a crafted stream carries: the largest multiplier and offsets.
CraftedTrees ==
  { Leaf0("Zero", PixelMin, PixelMax),
    Leaf0("Left", PixelMax, PixelMax),
    SplitLeafAt(Leaf0("Weighted", Int8Max, PixelMax), 0, kWPProp, 0,
                "Weighted", Int8Min, PixelMax),
    SplitLeafAt(Leaf0("Gradient", PixelMin, PixelMax), 0, kYProp, 0, "Zero", 0, 1) }

NoStore == [path |-> "none", sym |-> 0, multiplier |-> 0, offset |-> 0,
            prediction |-> 0, stored |-> 0]

InitCodec ==
  /\ channel \in CodecShapes
  /\ \E kind \in {"encoded", "crafted"}, d \in ClusterDivisors :
       /\ tree \in IF kind = "encoded" THEN CodecTrees
                   ELSE CodecTrees \cup CraftedTrees
       /\ stream = [kind |-> kind,
                    context_map |-> [c \in 1..NumContexts(tree) |-> (c - 1) \div d]]
       /\ IF kind = "encoded"
          THEN \E p1 \in [1..(channel[1][1] * channel[1][2]) -> CodecPixels] :
                 IF Len(channel) = 1 THEN pixels = <<p1>>
                 ELSE \E p2 \in [1..(channel[2][1] * channel[2][2]) -> CodecPixels] :
                        pixels = <<p1, p2>>
          ELSE pixels = [c \in 1..Len(channel) |-> <<>>]
       /\ pc = IF kind = "encoded" THEN "enc_loop" ELSE "dec_loop"
  /\ decoded = [c \in 1..Len(channel) |-> <<>>]
  /\ tokens = <<>>
  /\ enc = NoCoder
  /\ dec = [chan |-> 0, path |-> "none", x |-> 0, y |-> 0, pos |-> 0, last |-> NoStore]
  /\ wp_calls = <<>>
  /\ nb_meta_channels = 0
  /\ options = [skipchannels |-> 0, max_chan_size |-> CodecMaxChanSize]
  /\ loop_i = 0
  /\ caller = "tree"
  /\ visited = NoVisits
  /\ finished = {}
  /\ static_props = <<0, CodecGroupId>>
  /\ FlatIdle
  /\ WalkIdle
  /\ ZigIdle
  /\ first_run = NoRun
  /\ EntryIdle

\* ModularEncode's encoding loop reaches channel loop_i, and
\* EncodeModularChannelMAANS filters the tree, walks it and selects its path.
EncChannelBegin ==
  /\ pc = "enc_loop"
  /\ \E what \in {IF loop_i < Len(channel)
                  THEN EncCodeIter(channel, nb_meta_channels, options, loop_i)
                  ELSE "end"},
        s \in {<<loop_i, CodecGroupId>>} :
     \E f \in {FilterTree(tree, s)} :
     \E w \in {WalkRun("enc", f.tree, f.wp_only)} :
         IF what = "visit"
         THEN /\ static_props' = s
              /\ enc' = [chan |-> loop_i, path |-> EncPath(f.tree, w.is_wp_only),
                         x |-> 0, y |-> 0, wp |-> WPInit, flat |-> f.tree,
                         fills |-> w.fills, use_wp |-> f.use_wp, before |-> tokens]
              /\ wp_calls' = <<>>
              /\ pc' = "enc_chan"
              /\ UNCHANGED loop_i
         ELSE /\ loop_i' = IF what = "skip" THEN loop_i + 1 ELSE options.skipchannels
              /\ pc' = IF what = "skip" THEN pc ELSE "dec_loop"
              /\ UNCHANGED <<static_props, enc, wp_calls>>
  /\ UNCHANGED <<tree, flat_vars, walk_vars, channel, nb_meta_channels, options, caller,
                 visited, finished, pixels, stream, tokens, decoded, dec, zig, first_run, entry_vars>>

\* One iteration of the encoder's inner loop.
EncPixel ==
  /\ pc = "enc_chan"
  /\ enc.y < channel[enc.chan + 1][2]
  /\ LET w == channel[enc.chan + 1][1]
         px == pixels[enc.chan + 1]
     IN  \E o \in EncOutcomes(enc, px, w, static_props) :
           IF o.abort
           THEN /\ pc' = "enc_abort"
                /\ UNCHANGED <<tokens, enc, wp_calls>>
           ELSE /\ tokens' = EmplaceBack(tokens, [ctx |-> o.ctx, sym |-> o.sym,
                                                  chan |-> enc.chan, x |-> enc.x,
                                                  y |-> enc.y])
                /\ enc' = NextPos([enc EXCEPT !.wp = o.wp], w)
                /\ wp_calls' = wp_calls \o WPCalls(o.called, enc.x, enc.y,
                                                   px[enc.y * w + enc.x + 1])
                /\ UNCHANGED pc
  /\ UNCHANGED <<tree, static_props, flat_vars, walk_vars, sel_vars, pixels, stream,
                 decoded, dec, zig, first_run, entry_vars>>

\* EncodeModularChannelMAANS returns; the encoding loop goes on to the next channel.
EncChannelEnd ==
  /\ pc = "enc_chan"
  /\ enc.y >= channel[enc.chan + 1][2]
  /\ pc' = "enc_loop"
  /\ loop_i' = loop_i + 1
  /\ UNCHANGED <<tree, static_props, flat_vars, walk_vars, channel, nb_meta_channels,
                 options, caller, visited, finished, codec_vars, zig, first_run, entry_vars>>

\* ModularDecode's decoding loop reaches channel loop_i, and
\* DecodeModularChannelMAANS filters the tree, remaps the contexts, walks the
\* tree and selects its path.
DecChannelBegin ==
  /\ pc = "dec_loop"
  /\ \E what \in {IF loop_i < Len(channel)
                  THEN DecCodeIter(channel, nb_meta_channels, options, loop_i)
                  ELSE "end"},
        s \in {<<loop_i, CodecGroupId>>} :
     \E f \in {FilterTree(tree, s)} :
     \E ft \in {RemapContexts(f.tree, stream.context_map)} :
     \E w \in {WalkRun("dec", ft, f.wp_only)} :
         IF what = "visit"
         THEN /\ static_props' = s
              /\ dec' = [chan |-> loop_i, path |-> DecPath(ft, w.is_wp_only, f.use_wp),
                         x |-> 0, y |-> 0, wp |-> WPInit, flat |-> ft,
                         fills |-> w.fills, use_wp |-> f.use_wp, pos |-> dec.pos,
                         last |-> NoStore]
              /\ wp_calls' = <<>>
              /\ pc' = "dec_chan"
              /\ UNCHANGED loop_i
         ELSE /\ loop_i' = IF what = "skip" THEN loop_i + 1 ELSE options.skipchannels
              /\ pc' = IF what = "skip" THEN pc ELSE "done"
              /\ UNCHANGED <<static_props, dec, wp_calls>>
  /\ UNCHANGED <<tree, flat_vars, walk_vars, channel, nb_meta_channels, options, caller,
                 visited, finished, pixels, stream, tokens, decoded, enc, zig, first_run, entry_vars>>

\* reader->ReadHybridUintClustered(ctx, br): the symbols the read can give.  A
\* token read with the context it was written with gives its symbol.
ReadSymbols(pos, ctx) ==
  IF stream.kind = "encoded" /\ stream.context_map[tokens[pos + 1].ctx + 1] = ctx
  THEN {tokens[pos + 1].sym}
  ELSE CraftedSymbols

\* One iteration of the decoder's inner loop.
DecPixel ==
  /\ pc = "dec_chan"
  /\ dec.y < channel[dec.chan + 1][2]
  /\ \E w \in {channel[dec.chan + 1][1]} :
     \E pre \in {DecPrepare(dec, decoded[dec.chan + 1], w, static_props)} :
         \E v \in ReadSymbols(dec.pos, pre.ctx) :
           \E stored \in {DecStore(dec, pre, v)} :
               /\ decoded' = [decoded EXCEPT ![dec.chan + 1] = Append(@, stored)]
               /\ dec' = NextPos([dec EXCEPT !.wp = IF pre.called
                                                   THEN WPUpdateErrors(pre.wp, stored)
                                                   ELSE pre.wp,
                                             !.pos = dec.pos + 1,
                                             !.last = [path |-> dec.path, sym |-> v,
                                                       multiplier |-> pre.multiplier,
                                                       offset |-> pre.offset,
                                                       prediction |-> pre.prediction,
                                                       stored |-> stored]], w)
               /\ wp_calls' = wp_calls \o WPCalls(pre.called, dec.x, dec.y, stored)
  /\ UNCHANGED <<pc, tree, static_props, flat_vars, walk_vars, sel_vars, pixels, stream,
                 tokens, enc, zig, first_run, entry_vars>>

\* reader->IsSingleValue(ctx_id, &value, w * h): the values a histogram with a
\* single symbol can have; an encoded stream has one only if all tokens of the
\* context carry the same symbol.
SingleValues(pos, ctx) ==
  IF stream.kind = "crafted" THEN CraftedSymbols
  ELSE {v \in {tokens[pos + 1].sym} :
          \A j \in 1..Len(tokens) :
            stream.context_map[tokens[j].ctx + 1] = ctx => tokens[j].sym = v}

\* The "fastest track": a single Zero leaf whose histogram has one symbol; the
\* whole channel is filled with one value.
DecFill ==
  /\ pc = "dec_chan"
  /\ dec.path = "leaf_zero"
  /\ dec.x = 0 /\ dec.y = 0
  /\ LET w == channel[dec.chan + 1][1]
         h == channel[dec.chan + 1][2]
         leaf == dec.flat[1]
     IN  \E value \in SingleValues(dec.pos, leaf.childID) :
           LET v == StoreLeafZero(value, leaf.multiplier, leaf.predictor_offset)
           IN  /\ decoded' = [decoded EXCEPT ![dec.chan + 1] = [j \in 1..(w * h) |-> v]]
               /\ dec' = [dec EXCEPT !.y = h, !.pos = dec.pos + w * h,
                                     !.last = [path |-> "leaf_zero_fill", sym |-> value,
                                               multiplier |-> leaf.multiplier,
                                               offset |-> leaf.predictor_offset,
                                               prediction |-> 0, stored |-> v]]
  /\ UNCHANGED <<pc, tree, static_props, flat_vars, walk_vars, sel_vars, pixels, stream,
                 tokens, enc, wp_calls, zig, first_run, entry_vars>>

\* DecodeModularChannelMAANS returns; the decoding loop goes on to the next channel.
DecChannelEnd ==
  /\ pc = "dec_chan"
  /\ dec.y >= channel[dec.chan + 1][2]
  /\ pc' = "dec_loop"
  /\ loop_i' = loop_i + 1
  /\ UNCHANGED <<tree, static_props, flat_vars, walk_vars, channel, nb_meta_channels,
                 options, caller, visited, finished, codec_vars, zig, first_run, entry_vars>>

NextCodec ==
  \/ EncChannelBegin \/ EncPixel \/ EncChannelEnd
  \/ DecChannelBegin \/ DecPixel \/ DecFill \/ DecChannelEnd

SpecCodec == InitCodec /\ [][NextCodec]_vars

\* C1: when an encoded image has been decoded, every channel holds the
\* encoder's input pixels.
C1_RoundTrip ==
  (pc = "done" /\ stream.kind = "encoded") => decoded = pixels

\* The coder at work, the channel's width and height, the pixels it has
\* finished, and the channel's pixels as that coder has them.
Coding == pc \in {"enc_chan", "dec_chan"}
Coder == IF pc = "enc_chan" THEN enc ELSE dec
CoderW == channel[Coder.chan + 1][1]
CoderH == channel[Coder.chan + 1][2]
CoderDone == Coder.y * CoderW + Coder.x
CoderPixels == IF pc = "enc_chan" THEN pixels[enc.chan + 1] ELSE decoded[dec.chan + 1]

\* C7: while a channel whose filtered tree references the weighted predictor
\* is coded, the selected path keeps a WP state, and the calls made on it so far
\* are Predict then UpdateErrors for every finished pixel, in raster order,
\* UpdateErrors being given the pixel's final value.
C7_WPCallProtocol ==
  (Coding /\ Coder.use_wp) =>
    /\ Coder.path \in WPPaths
    /\ Len(wp_calls) = 2 * CoderDone
    /\ \A j \in 0..(CoderDone - 1) :
         /\ wp_calls[2 * j + 1] =
              [op |-> "Predict", x |-> j % CoderW, y |-> j \div CoderW, val |-> 0]
         /\ wp_calls[2 * j + 2] =
              [op |-> "UpdateErrors", x |-> j % CoderW, y |-> j \div CoderW,
               val |-> CoderPixels[j + 1]]

\* The decoder has finished a channel of two rows and two columns with a tree
\* that has a Weighted leaf under a decision on another property.
C7_Witness ==
  /\ pc = "dec_chan"
  /\ stream.kind = "encoded"
  /\ dec.use_wp
  /\ dec.path = "tree_wp"
  /\ CoderW = 2 /\ CoderH = 2
  /\ dec.y = 2
  /\ Len(wp_calls) = 8

\* C8: while the encoder codes a channel, the token vector is the vector it
\* found followed by one token per finished pixel, the k-th of them for pixel
\* (k mod w, k div w) of this channel: w * h tokens when the channel is
\* finished; and the tokens of an image are in channel order.
C8_TokenOrder ==
  /\ pc = "enc_chan" =>
       /\ Len(tokens) = Len(enc.before) + CoderDone
       /\ SubSeq(tokens, 1, Len(enc.before)) = enc.before
       /\ \A k \in 0..(CoderDone - 1) :
            LET tok == tokens[Len(enc.before) + k + 1]
            IN  /\ tok.chan = enc.chan
                /\ tok.x = k % CoderW
                /\ tok.y = k \div CoderW
  /\ \A i, j \in 1..Len(tokens) : i < j => tokens[i].chan <= tokens[j].chan

\* The encoder has finished the second channel of an image, two pixels wide,
\* after the tokens of the first.
C8_Witness ==
  /\ pc = "enc_chan"
  /\ enc.chan = 1
  /\ CoderW = 2
  /\ enc.y = CoderH
  /\ Len(enc.before) = 2
  /\ Len(tokens) = 4
  /\ tokens[1].chan = 0 /\ tokens[4].chan = 1

\* C9: the pixel the decoder stores is the exact sum UnpackSigned(symbol) *
\* multiplier + offset + prediction clamped to the pixel range, on every path.
C9_SaturatingReconstruction ==
  dec.last.path # "none" =>
    /\ dec.last.stored =
         ClampPixel(UnpackSigned(dec.last.sym) * dec.last.multiplier
                    + dec.last.offset + dec.last.prediction)
    /\ dec.last.stored \in PixelMin..PixelMax
    /\ decoded[dec.chan + 1][Len(decoded[dec.chan + 1])] = dec.last.stored

\* The WP fast track has stored a pixel whose exact sum lies below the pixel
\* range, from a crafted symbol and the largest multiplier.
C9_Witness ==
  /\ stream.kind = "crafted"
  /\ dec.last.path = "wp_fast"
  /\ dec.last.multiplier = PixelMax
  /\ UnpackSigned(dec.last.sym) * dec.last.multiplier + dec.last.offset
       + dec.last.prediction < PixelMin
  /\ dec.last.stored = PixelMin

(***************************************************************************)
(* 64-bit unsigned words (uint64_t, size_t), as the set of the positions   *)
(* of their 1 bits                                                         *)
(***************************************************************************)

Xor64(a, b) == (a \ b) \cup (b \ a)
Shl64(a, k) == {i + k : i \in {j \in a : j + k <= 63}}
Shr64(a, k) == {i - k : i \in {j \in a : j >= k}}

\* a + b modulo 2^64, by ripple carry from bit i with carry c.
RECURSIVE AddFrom(_, _, _, _)
AddFrom(a, b, i, c) ==
  IF i > 63 THEN {}
  ELSE LET n == (IF i \in a THEN 1 ELSE 0) + (IF i \in b THEN 1 ELSE 0) + c
       IN  (IF n % 2 = 1 THEN {i} ELSE {}) \cup AddFrom(a, b, i + 1, n \div 2)

Add64(a, b) == AddFrom(a, b, 0, 0)

\* a <= b as unsigned numbers: equal, or the highest bit they differ in is b's.
Leq64(a, b) ==
  \/ a = b
  \/ \E m \in b \ a : \A k \in Xor64(a, b) : k <= m

\* A number below 2^31 as a word.
RECURSIVE BitsOf(_, _)
BitsOf(n, i) ==
  IF n = 0 THEN {}
  ELSE (IF n % 2 = 1 THEN {i} ELSE {}) \cup BitsOf(n \div 2, i + 1)

ToWord(n) == BitsOf(n, 0)

(***************************************************************************)
(* GatherTreeData: the sampling generator                                  *)
(***************************************************************************)
\* uint64_t s[2] = {0x94D049BB133111EBull, 0xBF58476D1CE4E5B9ull}
Seed ==
  <<{0, 1, 3, 5, 6, 7, 8, 12, 16, 20, 21, 24, 25, 28, 32, 33, 35, 36, 37, 39,
     40, 43, 46, 52, 54, 55, 58, 60, 63},
    {0, 3, 4, 5, 7, 8, 10, 13, 14, 15, 18, 21, 22, 23, 26, 27, 28, 32, 34,
     35, 37, 38, 40, 41, 42, 46, 51, 52, 54, 56, 57, 58, 59, 60, 61, 63}>>

\* use_sample: one step of xorshift128+; the pixel is sampled when the high
\* word of the output is at most the threshold.
UseSample(s, threshold) ==
  LET s0 == s[2]
      bits == Add64(s[1], s0)
      t == Xor64(s[1], Shl64(s[1], 23))
      s1 == Xor64(t, Xor64(s0, Xor64(Shr64(t, 18), Shr64(s0, 5))))
  IN  [s |-> <<s0, s1>>, sample |-> Leq64(Shr64(bits, 32), threshold)]

(***************************************************************************)
(* GatherTreeData: sampling threshold, one pixel                           *)
(***************************************************************************)
\* options.nb_repeats is a fraction <<a, b>> = a / b.
\* pixel_fraction = min(1.0f, nb_repeats); if it is positive,
\* max(pixel_fraction, min(1.0, 1024.0 / (w * h))).
PixelFraction(nb_repeats, w, h) ==
  IF nb_repeats[1] = 0 THEN <<0, 1>>
  ELSE LET pf == IF nb_repeats[1] >= nb_repeats[2] THEN <<1, 1>> ELSE nb_repeats
           floor == IF w * h <= 1024 THEN <<1, 1>> ELSE <<1024, w * h>>
       IN  IF pf[1] * floor[2] >= floor[1] * pf[2] THEN pf ELSE floor

\* threshold = (uint64 max >> 32) * pixel_fraction, truncated: the quotient
\* of (2^32 - 1) * a by b, in base 2^16 (exact in double for the fractions
\* 1 / 2^k the model uses; b < 2^15).
Threshold(f) ==
  IF f[1] = 0 THEN {}
  ELSE IF f[1] >= f[2] THEN 0..31
  ELSE LET a == f[1]
           b == f[2]
           r2 == (a - 1) % b
           q1 == (r2 * 65536 + 65535) \div b
           r1 == (r2 * 65536 + 65535) % b
           q0 == (r1 * 65536 + (65536 - a)) \div b
       IN  ToWord(q0) \cup Shl64(ToWord(q1), 16)

\* Predictor, in the order of the enumeration; kNumModularPredictors of them.
Predictors ==
  <<"Zero", "Left", "Top", "Average0", "Select", "Gradient", "Weighted",
    "TopRight", "TopLeft", "LeftLeft", "Average1", "Average2", "Average3",
    "Average4">>

kNumModularPredictors == Len(Predictors)

\* The predictor set ModularEncode builds from options.predictor.
PredictorSet(predictor) ==
  IF predictor = "Variable" THEN Predictors
  ELSE IF predictor = "Best" THEN <<"Gradient", "Weighted">>
  ELSE <<predictor>>

\* What a pixel contributes when it is sampled: its residual under every
\* predictor and its WP property.
SampleOf(res_weighted, res_gradient, res_others, wp) ==
  [res |-> [q \in {Predictors[i] : i \in 1..Len(Predictors)} |->
              IF q = "Weighted" THEN res_weighted
              ELSE IF q = "Gradient" THEN res_gradient ELSE res_others],
   wp |-> wp]

\* props: whether the columns exist, their common length, the kWPProp column.
NoColumns == [cols |-> FALSE, size |-> 0, wp |-> <<>>]

\* GatherTreeData entered with the generator as the previous call left it.
GatherEnter_KeepState(g, chan, w, h, nb_repeats) ==
  [g EXCEPT !.chan = chan, !.x = 0, !.y = 0, !.steps = 0,
            !.s = IF g.sampled = <<>> THEN Seed ELSE g.s,
            !.threshold = Threshold(PixelFraction(nb_repeats, w, h)),
            !.props = [g.props EXCEPT !.cols = TRUE],
            !.residuals = IF g.props.cols THEN g.residuals
                          ELSE [i \in 1..Len(g.predictors) |->
                                  IF i <= Len(g.residuals) THEN g.residuals[i] ELSE <<>>],
            !.sampled = Append(g.sampled, [chan |-> chan, w |-> w, h |-> h, at |-> <<>>])]

\* GatherTreeData from its entry to the first pixel, for channel chan:
\* threshold, seed, and the resize of props and residuals if props is empty.
GatherEnter(g, chan, w, h, nb_repeats) ==
  [g EXCEPT !.chan = chan, !.x = 0, !.y = 0, !.steps = 0,
            !.s = Seed,
            !.threshold = Threshold(PixelFraction(nb_repeats, w, h)),
            !.props = [g.props EXCEPT !.cols = TRUE],
            !.residuals = IF g.props.cols THEN g.residuals
                          ELSE [i \in 1..Len(g.predictors) |->
                                  IF i <= Len(g.residuals) THEN g.residuals[i] ELSE <<>>],
            !.sampled = Append(g.sampled, [chan |-> chan, w |-> w, h |-> h, at |-> <<>>])]

\* One iteration of GatherTreeData's inner loop at (g.x, g.y).
GatherBody(g, w, sample) ==
  LET u == UseSample(g.s, g.threshold)
      next == IF g.x + 1 < w THEN [x |-> g.x + 1, y |-> g.y]
              ELSE [x |-> 0, y |-> g.y + 1]
      n == Len(g.sampled)
  IN  [g EXCEPT !.x = next.x, !.y = next.y, !.steps = g.steps + 1,
                !.s = u.s,
                !.total_pixels = Add64(g.total_pixels, {0}),
                !.residuals = IF u.sample
                              THEN [i \in 1..Len(g.residuals) |->
                                      Append(g.residuals[i], sample.res[g.predictors[i]])]
                              ELSE g.residuals,
                !.props = IF u.sample
                          THEN [g.props EXCEPT !.size = @ + 1,
                                               !.wp = Append(@, sample.wp)]
                          ELSE g.props,
                !.sampled = IF u.sample
                            THEN [g.sampled EXCEPT ![n].at = Append(@, <<g.x, g.y>>)]
                            ELSE g.sampled]

(***************************************************************************)
(* LearnTree                                                               *)
(***************************************************************************)
RECURSIVE SumPacked(_)
\* cost += PackSigned(residuals[i][j]) over one residual column.
SumPacked(col) == IF col = <<>> THEN 0 ELSE PackSigned(Head(col)) + SumPacked(Tail(col))

RECURSIVE BasePredFrom(_, _, _, _)
\* The base_pred loop from predictor i (1-based) on.
BasePredFrom(residuals, i, base_pred, base_pred_cost) ==
  IF i > Len(residuals) THEN base_pred
  ELSE LET cost == SumPacked(residuals[i])
       IN  IF cost < base_pred_cost \/ i = 1
           THEN BasePredFrom(residuals, i + 1, i, cost)
           ELSE BasePredFrom(residuals, i + 1, base_pred, base_pred_cost)

\* std::swap(v[i], v[j]), 1-based.
Swap(v, i, j) == [k \in 1..Len(v) |-> IF k = i THEN v[j] ELSE IF k = j THEN v[i] ELSE v[k]]

\* pop_back.
PopBack(v) == SubSeq(v, 1, Len(v) - 1)

\* Position of Predictor::Weighted in predictors (1-based), 0 if absent.
WPPos(predictors) ==
  IF \E i \in 1..Len(predictors) : predictors[i] = "Weighted"
  THEN CHOOSE i \in 1..Len(predictors) :
         /\ predictors[i] = "Weighted"
         /\ \A j \in 1..(i - 1) : predictors[j] # "Weighted"
  ELSE 0

\* LearnTree up to the call of ComputeBestTree: "leaf" is the early return
\* of a one-leaf tree, "abort" the failed assertion, "built" the hand-over
\* of predictors, residuals and the kWPProp column to the tree builder.
LearnTree(predictors, columns, residuals, opt) ==
  LET choose == Len(residuals) > 1 /\ residuals[1] # <<>>
      base_pred == IF choose THEN BasePredFrom(residuals, 1, 1, 0) ELSE 1
      p1 == Swap(predictors, base_pred, 1)
      r1 == Swap(residuals, base_pred, 1)
      clipped == IF opt.force_wp_only
                 THEN [i \in 1..Len(columns.wp) |->
                         Min(Max(-kWPPropRange, columns.wp[i]), kWPPropRange - 1)]
                 ELSE columns.wp
      wp_col == IF opt.force_no_wp THEN [i \in 1..Len(clipped) |-> 0] ELSE clipped
      wp_pos == WPPos(p1)
      remove == opt.force_no_wp /\ wp_pos # 0
  IN  IF residuals = <<>> \/ r1[1] = <<>>
      THEN [kind |-> "leaf", tree |-> Leaf0(p1[Len(p1)], 0, 1),
            predictors |-> p1, residuals |-> r1, wp |-> columns.wp]
      ELSE IF remove /\ Len(p1) <= 1
      THEN [kind |-> "abort", tree |-> <<>>,
            predictors |-> p1, residuals |-> r1, wp |-> wp_col]
      ELSE [kind |-> "built", tree |-> <<>>,
            predictors |-> IF remove THEN PopBack(Swap(p1, wp_pos, Len(p1))) ELSE p1,
            residuals |-> IF remove THEN PopBack(Swap(r1, wp_pos, Len(r1))) ELSE r1,
            wp |-> wp_col]

\* ComputeBestTree: a tree whose leaves take their predictor from the
\* candidates it was handed, the first one being the baseline.
BuiltTrees(candidates) ==
  {Leaf0(candidates[1], 0, 1),
   SplitLeafAt(Leaf0(candidates[1], 0, 1), 0, kYProp, 0,
               candidates[Len(candidates)], 0, 1)}

NoLearn == [kind |-> "none", tree |-> <<>>, predictors |-> <<>>,
            residuals |-> <<>>, wp |-> <<>>]

(***************************************************************************)
(* The entry points of the encoder                                         *)
(***************************************************************************)
\* Bundle::Init(header).
NoHeader == [use_global_tree |-> FALSE, transforms |-> <<>>]

\* One section of the bit stream.
Section(kind, n, header) == [kind |-> kind, n |-> n, header |-> header]

\* The tree of a modular stream is coded with this many contexts.
kNumTreeContexts == 6

\* No global tree, code or context map handed in.
NoGlobal == [tree |-> <<>>, given |-> FALSE, code |-> FALSE, ctx_map |-> FALSE]

\* A call of an entry point before its first statement.
CallOf(fn, global) ==
  [fn |-> fn, ret |-> "none", global |-> global, header |-> NoHeader,
   num_chans |-> 0, wrote |-> {}, tokens |-> 0, width |-> 0,
   learned |-> NoLearn, entry |-> NoImage]

\* Where control goes when ModularEncode or ModularDecode returns.
ReturnPc(fn) ==
  IF fn = "compress" THEN "encode_returned"
  ELSE IF fn = "decompress" THEN "decode_returned"
  ELSE "returned"

\* The columns ModularEncode starts from, for an image whose pixels follow
\* pattern.
GatherStart(pattern) ==
  [chan |-> -1, x |-> 0, y |-> 0, steps |-> 0, s |-> <<{}, {}>>, threshold |-> {},
   predictors |-> <<>>, residuals |-> <<>>, props |-> NoColumns,
   total_pixels |-> {}, sampled |-> <<>>, pattern |-> pattern]

\* The residuals and the WP property of pixel (x, y) in an image of the
\* given pattern.
SampleAt(pattern, x, y) ==
  IF pattern = "flat" THEN SampleOf(0, 0, 0, 0)
  ELSE IF pattern = "wp" THEN SampleOf(0, 2, 3, 600)
  ELSE SampleOf(0 - 2, IF x % 2 = 0 THEN 1 ELSE -1, 3, 0 - 700)

\* None of the entry actions touches these.
entry_rest ==
  <<static_props, flat_vars, walk_vars, channel, nb_meta_channels, caller,
    visited, finished, codec_vars, zig, first_run>>

\* The early return testing the width only.
ZeroSized_WidthOnly(img) == img.w = 0

\* if (image.w == 0 || image.h == 0) return true;
ZeroSized(img) == img.w = 0 \/ img.h = 0

\* ModularGenericCompress up to its call of ModularEncode.
ModularGenericCompress ==
  /\ pc = "compress"
  /\ IF ZeroSized(image)
     THEN /\ call' = [call EXCEPT !.ret = "ok"]
          /\ pc' = "returned"
          /\ UNCHANGED options
     ELSE /\ options' = IF options.predictor = "Unset"
                        THEN [options EXCEPT !.predictor = "Gradient"]
                        ELSE options
          /\ pc' = "encode"
          /\ UNCHANGED call
  /\ UNCHANGED <<tree, loop_i, image, writer, reader, gather, entry_rest>>

\* ModularGenericCompress after ModularEncode returned.
CompressReturn ==
  /\ pc = "encode_returned"
  /\ pc' = "returned"
  /\ UNCHANGED <<tree, loop_i, options, image, call, writer, reader, gather, entry_rest>>

\* ModularEncode from its entry to the channel loop it runs first.
ModularEncode ==
  /\ pc = "encode"
  /\ IF image.error
     THEN /\ call' = [call EXCEPT !.ret = "fail"]
          /\ pc' = ReturnPc(call.fn)
          /\ UNCHANGED <<writer, gather, loop_i>>
     ELSE IF Len(channel) < 1
     THEN /\ call' = [call EXCEPT !.ret = "ok"]
          /\ pc' = ReturnPc(call.fn)
          /\ UNCHANGED <<writer, gather, loop_i>>
     ELSE LET header == [use_global_tree |-> caller = "tree",
                         transforms |-> image.transform]
          IN  /\ call' = [call EXCEPT !.header = header]
              /\ writer' = IF caller = "learn"
                           THEN Append(writer, Section("GroupHeader", 0, header))
                           ELSE writer
              /\ gather' = [gather EXCEPT !.predictors = PredictorSet(options.predictor)]
              /\ loop_i' = options.skipchannels
              /\ pc' = IF caller = "tree" THEN "code_loop" ELSE "gather_loop"
  /\ UNCHANGED <<tree, options, image, reader, entry_rest>>

\* One evaluation of the gathering loop's condition and, if it holds, the
\* iteration up to the call of GatherTreeData; after the loop, the return
\* of a data-gathering call.
GatherChannels ==
  /\ pc = "gather_loop"
  /\ IF loop_i >= Len(channel)
        \/ EncGatherIter(channel, nb_meta_channels, options, loop_i) = "stop"
     THEN /\ IF caller = "gather"
             THEN /\ call' = [call EXCEPT !.ret = "ok"]
                  /\ pc' = ReturnPc(call.fn)
             ELSE /\ pc' = "learn"
                  /\ UNCHANGED call
          /\ UNCHANGED <<loop_i, gather>>
     ELSE IF EncGatherIter(channel, nb_meta_channels, options, loop_i) = "skip"
     THEN /\ loop_i' = loop_i + 1
          /\ UNCHANGED <<pc, call, gather>>
     ELSE /\ gather' = GatherEnter(gather, loop_i, channel[loop_i + 1][1],
                                   channel[loop_i + 1][2], options.nb_repeats)
          /\ pc' = "gather_pixel"
          /\ UNCHANGED <<loop_i, call>>
  /\ UNCHANGED <<tree, options, image, writer, reader, entry_rest>>

MaxGatherSteps == 2048

\* GatherTreeData: the loop body for the pixel at (gather.x, gather.y).
GatherPixel ==
  /\ pc = "gather_pixel"
  /\ gather.y < channel[gather.chan + 1][2]
  /\ gather.steps < MaxGatherSteps
  /\ gather' = GatherBody(gather, channel[gather.chan + 1][1],
                          SampleAt(gather.pattern, gather.x, gather.y))
  /\ UNCHANGED <<pc, tree, loop_i, options, image, call, writer, reader, entry_rest>>

\* GatherTreeData returns to the gathering loop.
GatherReturn ==
  /\ pc = "gather_pixel"
  /\ gather.y >= channel[gather.chan + 1][2]
  /\ pc' = "gather_loop"
  /\ loop_i' = loop_i + 1
  /\ UNCHANGED <<tree, options, image, call, writer, reader, gather, entry_rest>>

\* ModularEncode's "Compute tree" block: the force_no_wp check, LearnTree,
\* TokenizeTree, and the tree's histograms and tokens written.
LearnAndWriteTree ==
  /\ pc = "learn"
  /\ IF options.force_no_wp /\ gather.predictors = <<"Weighted">>
     THEN /\ call' = [call EXCEPT !.ret = "fail"]
          /\ pc' = ReturnPc(call.fn)
          /\ UNCHANGED <<tree, writer, loop_i>>
     ELSE \E l \in {LearnTree(gather.predictors, gather.props, gather.residuals, options)} :
            IF l.kind = "abort"
            THEN /\ call' = [call EXCEPT !.learned = l, !.ret = "abort"]
                 /\ pc' = "aborted"
                 /\ UNCHANGED <<tree, writer, loop_i>>
            ELSE \E t \in (IF l.kind = "leaf" THEN {l.tree} ELSE BuiltTrees(l.predictors)) :
                   /\ tree' = t
                   /\ call' = [call EXCEPT !.learned = l]
                   /\ writer' = writer \o
                        <<Section("Histograms", kNumTreeContexts, NoHeader),
                          Section("TreeTokens", Len(t), NoHeader)>>
                   /\ loop_i' = options.skipchannels
                   /\ pc' = "code_loop"
  /\ UNCHANGED <<options, image, reader, gather, entry_rest>>

\* One evaluation of the coding loop's condition and, if it holds, the
\* iteration with its call of EncodeModularChannelMAANS (one token per
\* pixel); after the loop, the data section or *width, and the return.
CodeChannels ==
  /\ pc = "code_loop"
  /\ IF loop_i >= Len(channel)
        \/ EncCodeIter(channel, nb_meta_channels, options, loop_i) = "stop"
     THEN /\ writer' = IF ~call.header.use_global_tree
                       THEN writer \o
                              <<Section("Histograms", (Len(tree) + 1) \div 2, NoHeader),
                                Section("Tokens", call.tokens, NoHeader)>>
                       ELSE writer
          /\ call' = [call EXCEPT !.ret = "ok"]
          /\ pc' = ReturnPc(call.fn)
          /\ UNCHANGED loop_i
     ELSE IF EncCodeIter(channel, nb_meta_channels, options, loop_i) = "skip"
     THEN /\ loop_i' = loop_i + 1
          /\ UNCHANGED <<pc, call, writer>>
     ELSE /\ call' = [call EXCEPT
                        !.width = Max(@, channel[loop_i + 1][1]),
                        !.tokens = @ + channel[loop_i + 1][1] * channel[loop_i + 1][2]]
          /\ loop_i' = loop_i + 1
          /\ UNCHANGED <<pc, writer>>
  /\ UNCHANGED <<tree, options, image, reader, gather, entry_rest>>

(***************************************************************************)
(* The entry points of the decoder                                         *)
(***************************************************************************)
\* The global-tree test without the test for an empty tree.
GlobalMissing_EmptyAllowed(g) == ~g.given \/ ~g.code \/ ~g.ctx_map

\* !global_tree || !global_code || !global_ctx_map || global_tree->empty()
GlobalMissing(g) == ~g.given \/ ~g.code \/ ~g.ctx_map \/ g.tree = <<>>

\* The tree section read without the check of the ANS final state.
ReadTreeSection_Unchecked(rd) ==
  IF rd.fault = "tree_histograms"
  THEN [ok |-> FALSE, tree |-> <<>>, consumed |-> rd.consumed]
  ELSE IF rd.fault = "tree"
  THEN [ok |-> FALSE, tree |-> <<>>,
        consumed |-> Append(rd.consumed, Section("Histograms", kNumTreeContexts, NoHeader))]
  ELSE IF rd.fault = "data_histograms"
  THEN [ok |-> FALSE, tree |-> rd.tree,
        consumed |-> rd.consumed \o
          <<Section("Histograms", kNumTreeContexts, NoHeader),
            Section("TreeTokens", Len(rd.tree), NoHeader)>>]
  ELSE [ok |-> TRUE, tree |-> rd.tree,
        consumed |-> rd.consumed \o
          <<Section("Histograms", kNumTreeContexts, NoHeader),
            Section("TreeTokens", Len(rd.tree), NoHeader),
            Section("Histograms", (Len(rd.tree) + 1) \div 2, NoHeader)>>]

\* ModularDecode's local tree section: DecodeHistograms, DecodeTree, the
\* check of the ANS final state, DecodeHistograms for the data; each of them
\* fails if the stream is faulty there.
ReadTreeSection(rd) ==
  IF rd.fault = "tree_histograms"
  THEN [ok |-> FALSE, tree |-> <<>>, consumed |-> rd.consumed]
  ELSE IF rd.fault = "tree"
  THEN [ok |-> FALSE, tree |-> <<>>,
        consumed |-> Append(rd.consumed, Section("Histograms", kNumTreeContexts, NoHeader))]
  ELSE IF rd.fault \in {"tree_final", "data_histograms"}
  THEN [ok |-> FALSE, tree |-> rd.tree,
        consumed |-> rd.consumed \o
          <<Section("Histograms", kNumTreeContexts, NoHeader),
            Section("TreeTokens", Len(rd.tree), NoHeader)>>]
  ELSE [ok |-> TRUE, tree |-> rd.tree,
        consumed |-> rd.consumed \o
          <<Section("Histograms", kNumTreeContexts, NoHeader),
            Section("TreeTokens", Len(rd.tree), NoHeader),
            Section("Histograms", (Len(rd.tree) + 1) \div 2, NoHeader)>>]

\* ModularDecode from its entry to the num_chans loop: Bundle::Read, the
\* transform list taken over, MetaApply of every transform (the last one
\* fails if the stream is faulty there), identify and the error flag.
ModularDecode ==
  /\ pc = "decode"
  /\ IF image.nb_channels < 1
     THEN /\ call' = [call EXCEPT !.ret = "ok"]
          /\ pc' = ReturnPc(call.fn)
          /\ UNCHANGED <<image, reader, loop_i>>
     ELSE IF reader.fault = "header"
     THEN /\ call' = [call EXCEPT !.ret = "fail"]
          /\ pc' = ReturnPc(call.fn)
          /\ UNCHANGED <<image, reader, loop_i>>
     ELSE LET header == reader.header
              n == Len(header.transforms)
              meta_fails == reader.fault = "meta" /\ n > 0
          IN  /\ image' = [image EXCEPT
                             !.transform = header.transforms,
                             !.meta_applied = IF meta_fails
                                              THEN SubSeq(header.transforms, 1, n - 1)
                                              ELSE header.transforms]
              /\ reader' = [reader EXCEPT
                              !.consumed = Append(@, Section("GroupHeader", 0, header))]
              /\ loop_i' = options.skipchannels
              /\ IF meta_fails
                 THEN /\ call' = [call EXCEPT !.header = header, !.ret = "fail"]
                      /\ pc' = ReturnPc(call.fn)
                 ELSE IF options.identify
                 THEN /\ call' = [call EXCEPT !.header = header, !.ret = "ok"]
                      /\ pc' = ReturnPc(call.fn)
                 ELSE IF image.error
                 THEN /\ call' = [call EXCEPT !.header = header, !.ret = "fail"]
                      /\ pc' = ReturnPc(call.fn)
                 ELSE /\ call' = [call EXCEPT !.header = header]
                      /\ pc' = "count_loop"
  /\ UNCHANGED <<tree, options, writer, gather, entry_rest>>

\* One evaluation of the num_chans loop's condition and, if it holds, the
\* iteration; after the loop, the return if no channel was counted.
CountChannels ==
  /\ pc = "count_loop"
  /\ IF loop_i >= Len(channel)
        \/ DecCountIter(channel, nb_meta_channels, options, loop_i) = "stop"
     THEN /\ IF call.num_chans = 0
             THEN /\ call' = [call EXCEPT !.ret = "ok"]
                  /\ pc' = ReturnPc(call.fn)
             ELSE /\ pc' = "read_tree"
                  /\ UNCHANGED call
          /\ UNCHANGED loop_i
     ELSE /\ call' = IF DecCountIter(channel, nb_meta_channels, options, loop_i) = "visit"
                     THEN [call EXCEPT !.num_chans = @ + 1]
                     ELSE call
          /\ loop_i' = loop_i + 1
          /\ UNCHANGED pc
  /\ UNCHANGED <<tree, options, image, writer, reader, gather, entry_rest>>

\* ModularDecode's "Read tree" block: the local tree section, or the global
\* tree if the header asks for it.
ReadTree ==
  /\ pc = "read_tree"
  /\ IF ~call.header.use_global_tree
     THEN \E r \in {ReadTreeSection(reader)} :
            /\ reader' = [reader EXCEPT !.consumed = r.consumed]
            /\ tree' = r.tree
            /\ IF r.ok
               THEN /\ pc' = "distance_loop"
                    /\ UNCHANGED call
               ELSE /\ call' = [call EXCEPT !.ret = "fail"]
                    /\ pc' = ReturnPc(call.fn)
     ELSE /\ IF GlobalMissing(call.global)
             THEN /\ call' = [call EXCEPT !.ret = "fail"]
                  /\ pc' = ReturnPc(call.fn)
                  /\ UNCHANGED tree
             ELSE /\ tree' = call.global.tree
                  /\ pc' = "distance_loop"
                  /\ UNCHANGED call
          /\ UNCHANGED reader
  /\ loop_i' = options.skipchannels
  /\ UNCHANGED <<options, image, writer, gather, entry_rest>>

\* One evaluation of the distance_multiplier loop's condition and, if it
\* holds, the iteration.
DistanceChannels ==
  /\ pc = "distance_loop"
  /\ IF loop_i >= Len(channel)
        \/ DecDistIter(channel, nb_meta_channels, options, loop_i) = "stop"
     THEN /\ pc' = "read_loop"
          /\ loop_i' = options.skipchannels
          /\ UNCHANGED call
     ELSE /\ call' = IF DecDistIter(channel, nb_meta_channels, options, loop_i) = "visit"
                     THEN [call EXCEPT !.width = Max(@, channel[loop_i + 1][1])]
                     ELSE call
          /\ loop_i' = loop_i + 1
          /\ UNCHANGED pc
  /\ UNCHANGED <<tree, options, image, writer, reader, gather, entry_rest>>

\* One evaluation of the reading loop's condition and, if it holds, the
\* iteration with its call of DecodeModularChannelMAANS, which writes every
\* pixel of the channel from one token each; after the loop, the check of
\* the ANS final state and the return.
ReadChannels ==
  /\ pc = "read_loop"
  /\ IF loop_i >= Len(channel)
        \/ DecCodeIter(channel, nb_meta_channels, options, loop_i) = "stop"
     THEN /\ reader' = [reader EXCEPT
                          !.consumed = Append(@, Section("Tokens", call.tokens, NoHeader))]
          /\ call' = [call EXCEPT
                        !.ret = IF reader.fault = "data_final" THEN "fail" ELSE "ok"]
          /\ pc' = ReturnPc(call.fn)
          /\ UNCHANGED loop_i
     ELSE /\ call' = IF DecCodeIter(channel, nb_meta_channels, options, loop_i) = "visit"
                     THEN [call EXCEPT
                             !.wrote = @ \cup {loop_i},
                             !.tokens = @ + channel[loop_i + 1][1] * channel[loop_i + 1][2]]
                     ELSE call
          /\ loop_i' = loop_i + 1
          /\ UNCHANGED <<pc, reader>>
  /\ UNCHANGED <<tree, options, image, writer, gather, entry_rest>>

\* ModularGenericDecompress after ModularDecode returned: on failure the
\* failure is passed on, on success image.undo_transforms runs.
DecompressReturn ==
  /\ pc = "decode_returned"
  /\ pc' = "returned"
  /\ image' = IF call.ret = "ok" THEN [image EXCEPT !.undone = TRUE] ELSE image
  /\ UNCHANGED <<tree, loop_i, options, call, writer, reader, gather, entry_rest>>

\* The stream a learning encoder wrote is handed to ModularDecode, with an
\* image of the same channels and the same options.
DecodeWritten ==
  /\ pc = "returned"
  /\ call.fn \in {"compress", "encode"}
  /\ call.ret = "ok"
  /\ caller = "learn"
  /\ writer # <<>>
  /\ reader' = [kind |-> "written", fault |-> "none", header |-> call.header,
                tree |-> tree, consumed |-> <<>>]
  /\ image' = [image EXCEPT !.transform = <<>>]
  /\ call' = [CallOf("decode", NoGlobal) EXCEPT !.entry = image'] 
  /\ tree' = <<>>
  /\ pc' = "decode"
  /\ loop_i' = options.skipchannels
  /\ UNCHANGED <<options, writer, gather, entry_rest>>

(***************************************************************************)
(* Specification SpecGather: ModularEncode called to gather data, pixel by *)
(* pixel through GatherTreeData.                                           *)
(***************************************************************************)
GatherChannelSets ==
  {<<<<64, 32>>, <<64, 32>>>>,
   <<<<3, 2>>, <<0, 4>>, <<3, 2>>>>}
GatherRepeats == {<<0, 1>>, <<1, 4>>, <<1, 1>>}
GatherPatterns == {"flat", "grad"}
GatherPredictors == {"Best"}

EncodeOptions(skipchannels, max_chan_size, predictor, force_no_wp, nb_repeats) ==
  [skipchannels |-> skipchannels, max_chan_size |-> max_chan_size,
   predictor |-> predictor, force_no_wp |-> force_no_wp, force_wp_only |-> FALSE,
   nb_repeats |-> nb_repeats, identify |-> FALSE]

\* GatherTreeData in a 65536 x 65536 channel with nb_repeats = 0, after
\* 3464599876 pixels (at x = 39236, y = 52865): the generator's state s[0] =
\* 0x6c38b29eb3b1c6d3, s[1] = 0x899368e632ba6708, the pixel count, no sample
\* yet.

LateGather ==
  [GatherStart("flat") EXCEPT
     !.chan = 0, !.x = 39236, !.y = 52865,
     !.s = <<{0, 1, 4, 6, 7, 9, 10, 14, 15, 16, 20, 21, 23, 24, 25, 28, 29, 31, 33, 34, 35, 36, 39, 41, 44, 45, 47, 51, 52, 53, 58, 59, 61, 62},
              {3, 8, 9, 10, 13, 14, 17, 19, 20, 21, 23, 25, 28, 29, 33, 34, 37, 38, 39, 43, 45, 46, 48, 49, 52, 55, 56, 59, 63}>>, !.threshold = {},
     !.predictors = <<"Gradient">>, !.residuals = <<<<>>>>,
     !.props = [NoColumns EXCEPT !.cols = TRUE],
     !.total_pixels = {2, 6, 8, 11, 12, 15, 16, 23, 25, 26, 27, 30, 31},
     !.sampled = <<[chan |-> 0, w |-> 65536, h |-> 65536, at |-> <<>>]>>]

GatherRest ==
  /\ caller = "gather"
  /\ nb_meta_channels = 0
  /\ image = [NoImage EXCEPT !.w = 1, !.h = 1, !.nb_channels = Len(channel)]
  /\ writer = <<>>
  /\ reader = NoReader
  /\ tree = <<>>
  /\ static_props = <<0, 0>>
  /\ visited = NoVisits
  /\ finished = {}
  /\ FlatIdle
  /\ WalkIdle
  /\ CodecIdle
  /\ ZigIdle
  /\ first_run = NoRun

InitGather ==
  /\ \/ /\ channel \in GatherChannelSets
        /\ \E predictor \in GatherPredictors, nb_repeats \in GatherRepeats :
             options = EncodeOptions(0, 65536, predictor, FALSE, nb_repeats)
        /\ \E pattern \in GatherPatterns : gather = GatherStart(pattern)
        /\ pc = "encode"
        /\ loop_i = 0
        /\ call = CallOf("encode", NoGlobal)
     \/ /\ channel = <<<<65536, 65536>>>>
        /\ options = EncodeOptions(0, 65536, "Gradient", FALSE, <<0, 1>>)
        /\ gather = LateGather
        /\ pc = "gather_pixel"
        /\ loop_i = 0
        /\ call = [CallOf("encode", NoGlobal) EXCEPT
                     !.header = [use_global_tree |-> FALSE, transforms |-> <<>>]]
  /\ GatherRest

NextGather == ModularEncode \/ GatherChannels \/ GatherPixel \/ GatherReturn

SpecGather == InitGather /\ [][NextGather]_vars

(***************************************************************************)
(* Specification SpecRuns: the encoder is called twice with the same       *)
(* image, options, tree and group id.  ModularEncode gathers data, pixel   *)
(* by pixel, into columns that are empty at each call; or it codes the     *)
(* channels with a given tree into a token vector that is empty at each    *)
(* call.  What the first call produced is kept in first_run.               *)
(***************************************************************************)
RunsChannelSets == {<<<<3, 2>>, <<0, 4>>, <<64, 32>>>>}

InitRuns ==
  \/ /\ channel \in RunsChannelSets
     /\ \E predictor \in GatherPredictors, nb_repeats \in GatherRepeats :
          options = EncodeOptions(0, 65536, predictor, FALSE, nb_repeats)
     /\ \E pattern \in GatherPatterns : gather = GatherStart(pattern)
     /\ pc = "encode"
     /\ loop_i = 0
     /\ call = CallOf("encode", NoGlobal)
     /\ GatherRest
  \/ /\ InitCodec
     /\ stream.kind = "encoded"
     /\ \A c \in DOMAIN stream.context_map : stream.context_map[c] = c - 1

\* The data-gathering call has returned; the caller keeps its columns and
\* calls ModularEncode again with the same image and options and with empty
\* columns and a pixel count of 0.  What the call left in its own variables
\* (the generator, the threshold, the position) is as it left it.
GatherAgain ==
  /\ pc = "returned"
  /\ caller = "gather"
  /\ ~first_run.ran
  /\ first_run' = [NoRun EXCEPT !.ran = TRUE, !.props = gather.props,
                                !.residuals = gather.residuals,
                                !.total_pixels = gather.total_pixels]
  /\ gather' = [gather EXCEPT !.chan = -1, !.props = NoColumns, !.residuals = <<>>,
                              !.total_pixels = {}, !.sampled = <<>>]
  /\ call' = CallOf("encode", NoGlobal)
  /\ pc' = "encode"
  /\ loop_i' = 0
  /\ UNCHANGED <<tree, static_props, flat_vars, walk_vars, channel, nb_meta_channels,
                 options, caller, visited, finished, codec_vars, zig, image, writer,
                 reader>>

\* The coding call has returned; the caller keeps its tokens and calls
\* ModularEncode again with the same image, options and tree and with an empty
\* token vector.  What EncodeModularChannelMAANS left in its own variables is
\* as it left it.
EncodeAgain ==
  /\ pc = "dec_loop"
  /\ caller = "tree"
  /\ ~first_run.ran
  /\ first_run' = [NoRun EXCEPT !.ran = TRUE, !.tokens = tokens]
  /\ tokens' = <<>>
  /\ pc' = "enc_loop"
  /\ loop_i' = options.skipchannels
  /\ UNCHANGED <<tree, static_props, flat_vars, walk_vars, channel, nb_meta_channels,
                 options, caller, visited, finished, pixels, stream, decoded, enc, dec,
                 wp_calls, zig, entry_vars>>

NextRuns ==
  \/ ModularEncode \/ GatherChannels \/ GatherPixel \/ GatherReturn \/ GatherAgain
  \/ EncChannelBegin \/ EncPixel \/ EncChannelEnd \/ EncodeAgain

SpecRuns == InitRuns /\ [][NextRuns]_vars

(***************************************************************************)
(* Specification SpecEntry: one call of an entry point, of the encoder     *)
(* (whose stream, if it learned its tree, is then decoded) or of the       *)
(* decoder on a crafted stream.                                            *)
(***************************************************************************)
MaxEntryChannels == 2

EntryDims == {<<0, 1>>, <<2, 1>>, <<3, 3>>}
EntryChannels(dims) == UNION {[1..n -> dims] : n \in 0..MaxEntryChannels}
\* image.nb_channels of the image ModularDecode is handed: the number of
\* channels the image holds, or a count that differs from it (the decoder
\* reads the field image.nb_channels at its entry test and the size of the
\* vector image.channel in its loops, as two separate fields).
EntryCounts(n) == {n} \cup {0, 1}
EntryFaults ==
  {"none", "header", "meta", "tree_histograms", "tree", "tree_final",
   "data_histograms", "data_final"}
EntryGlobals ==
  {[tree |-> Leaf0("Gradient", 0, 1), given |-> TRUE, code |-> TRUE, ctx_map |-> TRUE],
   [tree |-> <<>>, given |-> TRUE, code |-> TRUE, ctx_map |-> TRUE],
   [tree |-> <<>>, given |-> FALSE, code |-> TRUE, ctx_map |-> TRUE],
   [tree |-> Leaf0("Gradient", 0, 1), given |-> TRUE, code |-> FALSE, ctx_map |-> TRUE],
   [tree |-> Leaf0("Gradient", 0, 1), given |-> TRUE, code |-> TRUE, ctx_map |-> FALSE]}

EntryRest ==
  /\ nb_meta_channels = 0
  /\ loop_i = options.skipchannels
  /\ static_props = <<0, 0>>
  /\ visited = NoVisits
  /\ finished = {}
  /\ FlatIdle
  /\ WalkIdle
  /\ CodecIdle
  /\ ZigIdle
  /\ first_run = NoRun

\* A call of ModularGenericCompress or ModularEncode.
InitEncode ==
  /\ \E fn \in {"compress", "encode"}, error \in BOOLEAN :
       /\ call = CallOf(fn, NoGlobal)
       /\ pc = fn
       /\ \/ /\ channel \in EntryChannels(EntryDims)
             /\ image = [NoImage EXCEPT !.w = 2, !.h = 2, !.error = error,
                                       !.nb_channels = Len(channel),
                                       !.transform = <<"RCT">>]
          \/ /\ channel \in EntryChannels({<<0, 0>>})
             /\ \E d \in {<<0, 2>>, <<2, 0>>} :
                  image = [NoImage EXCEPT !.w = d[1], !.h = d[2], !.error = error,
                                          !.nb_channels = Len(channel)]
       /\ \E predictor \in {"Gradient", "Weighted", "Best", "Variable"}
                              \cup (IF fn = "compress" THEN {"Unset"} ELSE {}),
             force_no_wp \in BOOLEAN, nb_repeats \in {<<0, 1>>, <<1, 1>>},
             skipchannels \in {0, 1} :
            options = EncodeOptions(skipchannels, 2, predictor, force_no_wp, nb_repeats)
  /\ caller \in {"learn", "gather", "tree"}
  /\ tree = IF caller = "tree" THEN Leaf0("Gradient", 0, 1) ELSE <<>>
  /\ \E pattern \in (IF caller = "tree" \/ options.nb_repeats[1] = 0
                     THEN {"flat"} ELSE {"flat", "wp", "grad"}) :
       gather = GatherStart(pattern)
  /\ writer = <<>>
  /\ reader = NoReader
  /\ EntryRest

\* A call of ModularGenericDecompress or ModularDecode on a crafted stream.
InitDecode ==
  /\ channel \in EntryChannels(EntryDims)
  /\ \E fn \in {"decompress", "decode"}, error \in BOOLEAN,
        nb_channels \in EntryCounts(Len(channel)) :
       /\ image = [NoImage EXCEPT !.w = 2, !.h = 2, !.error = error,
                                 !.nb_channels = nb_channels]
       /\ pc = "decode"
       /\ \E g \in EntryGlobals \cup {NoGlobal} :
            call = [CallOf(fn, g) EXCEPT !.entry = image]
  /\ \E skipchannels \in {0, 1}, identify \in BOOLEAN :
       options = [EncodeOptions(skipchannels, 2, "Gradient", FALSE, <<0, 1>>)
                    EXCEPT !.identify = identify]
  /\ \E fault \in EntryFaults, use_global_tree \in BOOLEAN,
        transforms \in {<<>>, <<"Palette", "Squeeze">>} :
       reader = [kind |-> "crafted", fault |-> fault,
                 header |-> [use_global_tree |-> use_global_tree,
                             transforms |-> transforms],
                 tree |-> Leaf0("Gradient", 0, 1), consumed |-> <<>>]
  /\ (reader.header.use_global_tree \/ call.global = NoGlobal)
  /\ caller = "learn"
  /\ tree = <<>>
  /\ gather = NoGather
  /\ writer = <<>>
  /\ EntryRest

InitEntry == InitEncode \/ InitDecode

NextEntry ==
  \/ ModularGenericCompress
  \/ CompressReturn
  \/ ModularEncode
  \/ GatherChannels
  \/ GatherPixel
  \/ GatherReturn
  \/ LearnAndWriteTree
  \/ CodeChannels
  \/ DecodeWritten
  \/ ModularDecode
  \/ CountChannels
  \/ ReadTree
  \/ DistanceChannels
  \/ ReadChannels
  \/ DecompressReturn

SpecEntry == InitEntry /\ [][NextEntry]_vars

\* A decoding call, and one that has returned to its caller.
Decoding == call.fn \in {"decode", "decompress"}
DecodeReturned == Decoding /\ pc \in {"returned", "decode_returned"}

\* C11: if the local tree section of the stream is corrupt (the tree's
\* histograms, DecodeTree or the tree reader's ANS final state fails), then
\* ModularDecode, once it gets to the tree section, returns failure without
\* reaching the channel loops: DecodeModularChannelMAANS is called for no
\* channel and no pixel is written.
C11_CorruptTreeSection ==
  (Decoding /\ ~reader.header.use_global_tree
     /\ reader.fault \in {"tree_histograms", "tree", "tree_final"})
    => /\ call.wrote = {}
       /\ pc \notin {"distance_loop", "read_loop"}
       /\ (DecodeReturned /\ call.num_chans > 0) => call.ret = "fail"

\* The tree decoded but its ANS final state failed, with two selected
\* channels waiting: the call has returned failure.
C11_Witness ==
  /\ DecodeReturned
  /\ reader.fault = "tree_final"
  /\ call.num_chans = 2
  /\ call.ret = "fail"
  /\ call.wrote = {}
  /\ Len(reader.consumed) = 3

\* C12 (as claimed): whenever ModularDecode returns failure the image is as
\* it was at entry: no pixel written, transform list and channel metadata
\* unchanged.
C12_NoPartialCommit ==
  (DecodeReturned /\ call.ret = "fail")
    => /\ call.wrote = {}
       /\ image.transform = call.entry.transform
       /\ image.meta_applied = <<>>

\* The caller supplied no global tree, no code, no context map, or a tree
\* without nodes.
NothingGlobal ==
  \/ ~call.global.given
  \/ ~call.global.code
  \/ ~call.global.ctx_map
  \/ Len(call.global.tree) = 0

\* C13 (as claimed): for every image with at least one channel, ModularDecode
\* returns failure whenever the header has use_global_tree set and the caller
\* supplied no global tree, code or context map, or an empty tree.
C13_MissingGlobalTreeAsClaimed ==
  (DecodeReturned /\ image.nb_channels >= 1 /\ Len(channel) >= 1
     /\ reader.kind = "crafted"
     /\ reader.fault # "header" /\ reader.header.use_global_tree
     /\ NothingGlobal)
    => call.ret = "fail"

\* C13: ModularDecode returns failure whenever the header it read has
\* use_global_tree set, options.identify is not set, the channel selection
\* rule selects at least one channel, and the caller supplied no global tree,
\* code or context map, or an empty tree; with identify set, or with no
\* channel selected and the error flag clear, it returns success without
\* looking at the global tree (unless MetaApply failed).
C13_MissingGlobalTree ==
  (DecodeReturned /\ image.nb_channels >= 1 /\ reader.kind = "crafted"
     /\ reader.fault # "header" /\ reader.header.use_global_tree
     /\ NothingGlobal)
    => /\ (~options.identify /\ SelectedSet # {}) => call.ret = "fail"
       /\ ((options.identify \/ (SelectedSet = {} /\ ~image.error))
             /\ ~(reader.fault = "meta" /\ reader.header.transforms # <<>>))
            => call.ret = "ok"

\* A stream asking for the global tree, an empty global tree handed in, a
\* selected channel: the call got to the check and returned failure.
C13_Witness ==
  /\ DecodeReturned
  /\ reader.header.use_global_tree
  /\ reader.fault = "none"
  /\ call.global.given /\ call.global.code /\ call.global.ctx_map
  /\ call.global.tree = <<>>
  /\ ~options.identify
  /\ ~image.error
  /\ call.num_chans > 0
  /\ call.ret = "fail"

\* The original node two decisions lead to from the original node cur: the
\* top decision (gt0: it holds) picks lchild or rchild, static decisions are
\* skipped, and the child's decision (gti) picks again; a leaf child is the
\* node reached whatever gti.
Reached(t, s, cur, gt0, gti) ==
  LET child == SkipStatic(t, s, IF gt0 THEN t[cur + 1].lchild ELSE t[cur + 1].rchild)
      c == t[child + 1]
  IN  IF c.property = -1 THEN child
      ELSE SkipStatic(t, s, IF gti THEN c.lchild ELSE c.rchild)

\* FilterTree stores the grand-children by the convention in which top and
\* sub take the value hold when their decision (v > splitval) holds.
StoredByConvention(hold) ==
  \E origins \in {FlatOrigins(tree, static_props)} :
    \A k \in 1..Len(filtered.tree) :
      filtered.tree[k].property0 >= 0 =>
        \A top \in {0, 1}, sub \in {0, 1} :
          origins[filtered.tree[k].childID + 2 * top + sub + 1]
            = Reached(tree, static_props, origins[k], top = hold, sub = hold)

\* The ranges the walk is about to push follow that convention: the range
\* for slot childID + 2*top + sub is bounded by the child's split value on
\* the side sub names, and by splitval0 on the side top names (for the two
\* slots next to splitval0, or the only slot of a child without a decision).
PushedByConvention(hold) ==
  (pc = "walk" /\ ranges # <<>> /\ ~RangeRejected(ranges[Len(ranges)])
     /\ flat_tree[ranges[Len(ranges)].pos + 1].property0 # -1)
    => LET cur == ranges[Len(ranges)]
           node == flat_tree[cur.pos + 1]
           pushed == PushedRanges(cur, node)
       IN  \A j \in 1..Len(pushed) :
             LET r == pushed[j]
                 top == (r.pos - node.childID) \div 2
                 sub == (r.pos - node.childID) % 2
                 i == IF top = hold THEN 1 ELSE 2
                 decided == node.properties[i] >= kNumStaticProperties
             IN  /\ r.pos - node.childID \in 0..3
                 /\ (decided /\ sub = hold) => r.begin = node.splitvals[i]
                 /\ (decided /\ sub # hold) => r.end = node.splitvals[i]
                 /\ (top = hold /\ (~decided \/ sub # hold)) => r.begin = node.splitval0
                 /\ (top # hold /\ (~decided \/ sub = hold)) => r.end = node.splitval0

\* FilterTree has returned and the walk, if there is one, has not started.
FilterJustRan ==
  /\ pc \in {"walk", "walked"}
  /\ filtered # NoFiltered
  /\ fills = <<>>
  /\ ranges \in {<<>>, <<RootRange>>}
  /\ walk_access = NoAccess

\* C20 (as claimed): the grand-child reached by the decisions is stored at
\* childID + 2*top + sub with top = 1 iff v0 > splitval0 and sub = 1 iff
\* v_i > splitvals[i], and the WP range walk uses that convention.
C20_GrandChildIndexAsClaimed ==
  /\ FilterJustRan => StoredByConvention(1)
  /\ PushedByConvention(1)

\* C20: the grand-child reached by the decisions is stored at
\* childID + 2*top + sub with top = 0 iff v0 > splitval0 and sub = 0 iff
\* v_i > splitvals[i] (slot 0 holds the node reached when both decisions
\* hold, slot 3 the one reached when both fail), and the ranges the WP
\* range walk pushes follow that convention.
C20_GrandChildIndex ==
  /\ FilterJustRan => StoredByConvention(0)
  /\ PushedByConvention(0)

\* The walk is at a decision node with a decision on its > side, about to
\* push three ranges or more, and the node's four slots hold three
\* different nodes of the original tree.
C20_Witness ==
  /\ pc = "walk"
  /\ ranges # <<>>
  /\ ~RangeRejected(ranges[Len(ranges)])
  /\ flat_tree[ranges[Len(ranges)].pos + 1].property0 # -1
  /\ Len(PushedRanges(ranges[Len(ranges)], flat_tree[ranges[Len(ranges)].pos + 1])) >= 3
  /\ Cardinality({FlatOrigins(tree, static_props)[
                    flat_tree[ranges[Len(ranges)].pos + 1].childID + j + 1] :
                    j \in 0..3}) = 3

\* An encoding call, and one that has returned to its caller.
Encoding == call.fn \in {"compress", "encode"}
EncodeReturned == Encoding /\ pc = "returned"

\* C14 (as claimed): ModularGenericCompress and ModularEncode report failure
\* for every image of zero width or height or with its error flag set, and
\* write nothing.
C14_InvalidImageAsClaimed ==
  (EncodeReturned /\ (image.w = 0 \/ image.h = 0 \/ image.error))
    => /\ call.ret = "fail"
       /\ writer = <<>>

\* C14: ModularEncode, and ModularGenericCompress for an image of non-zero
\* width and height, report failure when the error flag is set, having
\* written nothing; ModularGenericCompress reports success for an image of
\* zero width or height, whatever its error flag, having written nothing.
C14_InvalidImage ==
  EncodeReturned
    => /\ (call.fn = "compress" /\ (image.w = 0 \/ image.h = 0))
            => (call.ret = "ok" /\ writer = <<>>)
       /\ (image.error /\ ~(call.fn = "compress" /\ (image.w = 0 \/ image.h = 0)))
            => (call.ret = "fail" /\ writer = <<>>)

\* ModularGenericCompress has returned for an image of zero height (and
\* non-zero width) with its error flag set.
C14_Witness ==
  /\ EncodeReturned
  /\ call.fn = "compress"
  /\ image.w # 0
  /\ image.h = 0
  /\ image.error
  /\ call.ret = "ok"
  /\ writer = <<>>

\* C15 (as claimed): a call of ModularEncode that must learn its own tree,
\* with force_no_wp set and the fixed predictor Weighted, returns failure
\* and has written nothing when it returns; LearnTree's assertion is not
\* reached with a single predictor.
C15_ForceNoWPWeighted ==
  (call.fn = "encode" /\ caller = "learn" /\ options.force_no_wp
     /\ options.predictor = "Weighted")
    => /\ pc # "aborted"
       /\ pc = "returned" => (call.ret = "fail" /\ writer = <<>>)

\* C16 (as claimed): the sections ModularDecode consumes from a stream that
\* ModularEncode wrote without a global tree are exactly the sections
\* written, in order and with the same context counts, also when no channel
\* is selected.
C16_StreamLayoutSymmetry ==
  (DecodeReturned /\ reader.kind = "written")
    => /\ call.ret = "ok"
       /\ reader.consumed = writer

\* C19 (as claimed): with force_no_wp set, once ModularEncode has learned a
\* tree, Weighted is not among the candidates handed to the tree builder
\* and no leaf of the tree has predictor Weighted, also when no samples
\* were gathered.
C19_ForceNoWPExcludesWeighted ==
  (Encoding /\ caller = "learn" /\ options.force_no_wp
     /\ call.learned.kind \in {"leaf", "built"})
    => /\ call.learned.kind = "built"
            => \A i \in 1..Len(call.learned.predictors) :
                 call.learned.predictors[i] # "Weighted"
       /\ \A i \in 1..Len(tree) :
            tree[i].property = -1 => tree[i].predictor # "Weighted"

\* The positions GatherTreeData samples in the rest of row y, from column x
\* on, after the positions at, and the generator after the row: one use_sample
\* per pixel.
RECURSIVE RowSamples(_, _, _, _, _, _)
RowSamples(s, at, threshold, w, x, y) ==
  IF x >= w THEN [s |-> s, at |-> at]
  ELSE CHOOSE r \in {RowSamples(u.s, IF u.sample THEN Append(at, <<x, y>>) ELSE at,
                                threshold, w, x + 1, y) :
                       u \in {UseSample(s, threshold)}} : TRUE

RECURSIVE RowsSamples(_, _, _, _, _, _)
RowsSamples(s, at, threshold, w, h, y) ==
  IF y >= h THEN at
  ELSE CHOOSE r \in {RowsSamples(row.s, row.at, threshold, w, h, y + 1) :
                       row \in {RowSamples(s, at, threshold, w, 0, y)}} : TRUE

\* The positions sampled in a channel as a function of its width, its height
\* and nb_repeats alone: the generator started from the seed, the threshold
\* from the pixel fraction, one step per pixel in raster order.
SampledPositions(w, h, nb_repeats) ==
  CHOOSE r \in {RowsSamples(Seed, <<>>, t, w, h, 0) :
                  t \in {Threshold(PixelFraction(nb_repeats, w, h))}} : TRUE

\* GatherTreeData has just returned to the gathering loop.
GatherJustReturned ==
  /\ pc = "gather_loop"
  /\ gather.chan >= 0
  /\ loop_i = gather.chan + 1
  /\ gather.sampled # <<>>

\* C17: two calls of the encoder with the same image, options, tree and group
\* id produce the same sampled property and residual columns (and the same
\* pixel count) and the same token sequence; and the positions GatherTreeData
\* samples in a channel are a function of the channel's width and height and
\* of nb_repeats alone, whatever the pixels hold and whatever channels were
\* gathered before (the generator starts from the fixed seed in every call).
C17_Determinism ==
  /\ (first_run.ran /\ pc = "returned")
       => /\ gather.props = first_run.props
          /\ gather.residuals = first_run.residuals
          /\ gather.total_pixels = first_run.total_pixels
  /\ (first_run.ran /\ pc = "dec_loop") => tokens = first_run.tokens
  /\ GatherJustReturned
       => LET last == gather.sampled[Len(gather.sampled)]
          IN  last.at = SampledPositions(last.w, last.h, options.nb_repeats)

\* The second data-gathering call has returned, on an image with a 3 x 2
\* channel, an empty channel and a 64 x 32 channel: GatherTreeData ran for the
\* first and the third, sampled every pixel of the first and some but not all
\* of the pixels of the third, and the columns hold a sample for each, as they
\* did after the first call.
C17_Witness ==
  /\ pc = "returned"
  /\ first_run.ran
  /\ gather.pattern = "grad"
  /\ Len(gather.sampled) = 2
  /\ Len(gather.sampled[1].at) = 6
  /\ gather.sampled[2].w * gather.sampled[2].h = 2048
  /\ Len(gather.sampled[2].at) > 0
  /\ Len(gather.sampled[2].at) < 2048
  /\ gather.props.size = 6 + Len(gather.sampled[2].at)
  /\ first_run.props.size = gather.props.size

\* C18 (as claimed): with nb_repeats = 0 GatherTreeData appends no sample,
\* for any channel and any generator output.
C18_NoSampleAtZero ==
  (options.nb_repeats[1] = 0 /\ pc \in {"gather_loop", "gather_pixel"})
    => /\ gather.props.size = 0
       /\ \A i \in 1..Len(gather.residuals) : gather.residuals[i] = <<>>

(***************************************************************************)
(* FilterTree on trees with Weighted leaves, weighted-predictor decisions, *)
(* and reference-channel properties                                        *)
(***************************************************************************)
MaxFlagInner == 3

\* Property ids the decisions test: one static, the weighted-predictor
\* property, the first and the last property of the first reference channel,
\* and the last property of the eighth reference channel.
FlagProperties == {0, kWPProp, kNumNonrefProperties,
                   kNumNonrefProperties + kExtraPropsPerChannel - 1,
                   kNumNonrefProperties + 8 * kExtraPropsPerChannel - 1}
\* The predictor of the first leaf; every leaf added later uses Weighted.
FlagPredictors == {"Weighted", "Gradient"}
FlagStatics == {<<0, 0>>, <<1, 0>>}

InitFlags ==
  /\ pc = "build"
  /\ \E pr \in FlagPredictors : tree = <<LeafNode(0, pr, 0, 1)>>
  /\ static_props \in FlagStatics
  /\ filtered = NoFiltered
  /\ props = NoProps
  /\ flat_leaf = NoLeaf
  /\ naive_leaf = NoLeaf
  /\ WalkIdle
  /\ SelIdle
  /\ CodecIdle
  /\ ZigIdle
  /\ first_run = NoRun
  /\ EntryIdle

FlagsSplit ==
  /\ pc = "build"
  /\ \E i \in LeafIds(tree), p \in FlagProperties :
       /\ CanSplit(tree, i, MaxFlagInner)
       /\ tree' = SplitLeafAt(tree, i, p, 0, "Weighted", 0, 1)
  /\ UNCHANGED <<pc, static_props, flat_vars, walk_vars, sel_vars, codec_vars, zig, first_run, entry_vars>>

FlagsFilter ==
  /\ pc = "build"
  /\ \E build \in ShiftBuilds : filtered' = FilterTreeOn(tree, static_props, build)
  /\ pc' = "filtered"
  /\ UNCHANGED <<tree, static_props, props, flat_leaf, naive_leaf, walk_vars, sel_vars, codec_vars, zig, first_run, entry_vars>>

NextFlags == FlagsSplit \/ FlagsFilter

SpecFlags == InitFlags /\ [][NextFlags]_vars

\* The nodes of the authoring tree the flat tree keeps: what is reached from
\* the root when every static decision is resolved by the static properties.
RECURSIVE KeptFrom(_, _, _)
KeptFrom(t, s, i) ==
  LET cur == SkipStatic(t, s, i)
  IN  IF IsLeaf(t[cur + 1]) THEN {cur}
      ELSE {cur} \cup KeptFrom(t, s, t[cur + 1].lchild)
                 \cup KeptFrom(t, s, t[cur + 1].rchild)

KeptLeaves == {i \in KeptFrom(tree, static_props, 0) : IsLeaf(tree[i + 1])}
KeptDecisions == KeptFrom(tree, static_props, 0) \ KeptLeaves

\* C21: after FilterTree, wp_only is true exactly when every kept leaf uses
\* the Weighted predictor and every kept decision tests the
\* weighted-predictor property, and use_wp is true exactly when some kept
\* leaf uses Weighted or some kept decision tests that property; this for
\* every tree, a single Weighted leaf and trees with property ids of 32 or
\* more included.
C21_FlagsAsClaimed ==
  pc = "filtered" =>
    /\ filtered.wp_only =
         (/\ \A i \in KeptLeaves : tree[i + 1].predictor = "Weighted"
          /\ \A i \in KeptDecisions : tree[i + 1].property = kWPProp)
    /\ filtered.use_wp =
         (\/ \E i \in KeptLeaves : tree[i + 1].predictor = "Weighted"
          \/ \E i \in KeptDecisions : tree[i + 1].property = kWPProp)

\* The property ids a flat tree stores: property0 and properties[0..1] of
\* its inner nodes.
StoredIds(flat) ==
  UNION {{flat[n].property0, flat[n].properties[1], flat[n].properties[2]} :
           n \in {m \in 1..Len(flat) : flat[m].property0 # -1}}

\* A property count that covers the ids: at least kNumNonrefProperties, whole
\* groups of kExtraPropsPerChannel above it, and above every id.
Covers(n, ids) ==
  /\ n >= kNumNonrefProperties
  /\ (n - kNumNonrefProperties) % kExtraPropsPerChannel = 0
  /\ \A id \in ids : id < n

\* C22: after FilterTree, num_props is at least kNumNonrefProperties, exceeds
\* it by a multiple of kExtraPropsPerChannel, is above every property id the
\* flat tree stores, and is the smallest such value.
C22_NumPropsBound ==
  pc = "filtered" =>
    /\ Covers(filtered.num_props, StoredIds(filtered.tree))
    /\ \A n \in 0..(filtered.num_props - 1) : ~Covers(n, StoredIds(filtered.tree))

\* A flat tree whose largest stored id is the first property of a reference
\* channel, so that the count is rounded up to the channel's last property.
C22_Witness ==
  /\ pc = "filtered"
  /\ kNumNonrefProperties \in StoredIds(filtered.tree)
  /\ \A id \in StoredIds(filtered.tree) : id <= kNumNonrefProperties
  /\ filtered.num_props = kNumNonrefProperties + kExtraPropsPerChannel

\* The indices (from 0) of the inner nodes of a flat tree.
FlatInner(flat) == {n \in 0..(Len(flat) - 1) : flat[n + 1].property0 # -1}

\* C27: in the flat tree FilterTree returns, the size is 1 + 4 * the number
\* of inner nodes; the four-slot block of every inner node lies after the
\* node and inside the tree; every index but 0 lies in the block of exactly
\* one inner node; no property0 is a static property; and properties[i] is
\* static only as the dummy decision (property 0, splitval 0) whose two
\* grand-child slots hold copies of one leaf.
C27_FlatTreeShape ==
  pc = "filtered" =>
    LET flat == filtered.tree
        inner == FlatInner(flat)
    IN  /\ Len(flat) = 1 + 4 * Cardinality(inner)
        /\ \A n \in inner :
             /\ flat[n + 1].childID > n
             /\ flat[n + 1].childID + 3 < Len(flat)
        /\ \A k \in 1..(Len(flat) - 1) :
             Cardinality({n \in inner : k \in flat[n + 1].childID..(flat[n + 1].childID + 3)}) = 1
        /\ \A n \in 0..(Len(flat) - 1) :
             flat[n + 1].property0 \notin 0..(kNumStaticProperties - 1)
        /\ \A n \in inner : \A i \in 0..1 :
             flat[n + 1].properties[i + 1] \in 0..(kNumStaticProperties - 1) =>
               /\ flat[n + 1].properties[i + 1] = 0
               /\ flat[n + 1].splitvals[i + 1] = 0
               /\ flat[flat[n + 1].childID + 2 * i + 1].property0 = -1
               /\ flat[flat[n + 1].childID + 2 * i + 1] = flat[flat[n + 1].childID + 2 * i + 2]

\* A flat tree of two inner nodes: the root has a decision as one child and
\* a leaf, stored as a dummy decision over two copies, as the other.
C27_Witness ==
  /\ pc = "filtered"
  /\ Len(filtered.tree) = 9
  /\ filtered.tree[1].properties[1] >= kNumStaticProperties
  /\ filtered.tree[1].properties[2] = 0
  /\ filtered.tree[4] = filtered.tree[5]

(***************************************************************************)
(* The encoder's residuals                                                 *)
(***************************************************************************)
\* The encoder is in a channel, or has aborted in it.
InEncChannel == pc \in {"enc_chan", "enc_abort"}

\* The assertion of the general path failed.
AssertionFailed == pc = "enc_abort" /\ enc.path = "tree_wp"

\* The paths without a division run only on trees whose leaf multipliers are
\* all 1.
UndividedPathsHaveUnitMultipliers ==
  (InEncChannel /\ enc.path \in {"wp_fast", "leaf_zero", "leaf_nowp"}) =>
    \A n \in 1..Len(enc.flat) :
      enc.flat[n].property0 = -1 => enc.flat[n].multiplier = 1

\* C23 (as claimed): the assertion residual % res.multiplier == 0 of the
\* general encode path never fails, whatever tree and pixels are passed to
\* EncodeModularChannelMAANS, and the paths that skip the division are
\* selected only when every leaf multiplier is 1.
C23_DivisibilityAsClaimed ==
  /\ ~AssertionFailed
  /\ UndividedPathsHaveUnitMultipliers

\* The boundary rules of the neighbourhood, on rows: row(yy)[xx] is the pixel
\* of column xx in row yy.
RuleNeighbors(px, w, x, y) ==
  LET row(yy) == [xx \in 0..(w - 1) |-> px[yy * w + xx + 1]]
      left == IF x > 0 THEN row(y)[x - 1] ELSE (IF y > 0 THEN row(y - 1)[x] ELSE 0)
      top == IF y > 0 THEN row(y - 1)[x] ELSE left
  IN  [left |-> left,
       top |-> top,
       topleft |-> IF x > 0 /\ y > 0 THEN row(y - 1)[x - 1] ELSE left,
       topright |-> IF x + 1 < w /\ y > 0 THEN row(y - 1)[x + 1] ELSE top,
       toptop |-> IF y > 1 THEN row(y - 2)[x] ELSE top]

\* At (x, y) of a w x h channel whose pixels so far are px, the fast path's
\* neighbours are those of the rules and its reads are inside the channel,
\* before (x, y) in raster order, and of pixels present in px.
CausalAt(px, w, h, x, y) ==
  /\ Neighbors(px, w, x, y) = RuleNeighbors(px, w, x, y)
  /\ \A p \in NeighborReads(w, x, y) :
       /\ p[1] \in 0..(w - 1)
       /\ p[2] \in 0..(h - 1)
       /\ p[2] * w + p[1] < y * w + x
       /\ p[2] * w + p[1] + 1 <= Len(px)

\* C25: at every pixel of the weighted-predictor fast path, encoder and
\* decoder compute left, top, topleft, topright and toptop by the boundary
\* rules, and every pixel they read lies inside the channel and strictly
\* before the current one in raster order, so the decoder reads only pixels it
\* has reconstructed.
C25_CausalNeighborhood ==
  /\ (pc = "enc_chan" /\ enc.path = "wp_fast" /\ enc.y < channel[enc.chan + 1][2]) =>
       CausalAt(pixels[enc.chan + 1], channel[enc.chan + 1][1],
                channel[enc.chan + 1][2], enc.x, enc.y)
  /\ (pc = "dec_chan" /\ dec.path = "wp_fast" /\ dec.y < channel[dec.chan + 1][2]) =>
       CausalAt(decoded[dec.chan + 1], channel[dec.chan + 1][1],
                channel[dec.chan + 1][2], dec.x, dec.y)

\* The decoder's fast path at the last pixel of a 2 x 2 channel whose first
\* row holds two different pixels: topright falls back to top, and left, top
\* and topleft are three reads.
C25_Witness ==
  /\ pc = "dec_chan"
  /\ dec.path = "wp_fast"
  /\ channel[dec.chan + 1] = <<2, 2>>
  /\ dec.x = 1
  /\ dec.y = 1
  /\ decoded[dec.chan + 1][1] # decoded[dec.chan + 1][2]

\* The prediction of the path the encoder runs at its position, and the
\* multiplier its residual is divided by.
EncPrediction ==
  LET w == channel[enc.chan + 1][1]
      nb == Neighbors(pixels[enc.chan + 1], w, enc.x, enc.y)
      pr == WPPredict(enc.wp, nb)
  IN  CASE enc.path = "wp_fast" -> [guess |-> pr.guess, multiplier |-> 1]
        [] enc.path = "leaf_zero" -> [guess |-> 0, multiplier |-> 1]
        [] enc.path = "leaf_nowp" ->
             [guess |-> PredictorGuess(enc.flat[1].predictor, nb, 0), multiplier |-> 1]
        [] enc.path = "tree_wp" ->
             LET res == PredictTree(enc.flat, static_props, nb, enc.y, pr)
             IN  [guess |-> res.guess, multiplier |-> res.multiplier]

\* One pixel of the encoder: unless the divisibility assertion stops it, the
\* token it appends carries PackSigned of the exact difference pixel - guess
\* (over the multiplier).
ExactResidualStep ==
  (pc = "enc_chan" /\ enc.y < channel[enc.chan + 1][2]) =>
    LET w == channel[enc.chan + 1][1]
        exact == pixels[enc.chan + 1][enc.y * w + enc.x + 1] - EncPrediction.guess
        m == EncPrediction.multiplier
    IN  IF exact % m # 0 THEN pc' = "enc_abort"
        ELSE /\ pc' = "enc_chan"
             /\ Len(tokens') = Len(tokens) + 1
             /\ tokens'[Len(tokens')].sym = PackSigned(exact \div m)

\* C26: in every encoder path, the weighted-predictor fast path included, the
\* value handed to PackSigned is the exact mathematical difference
\* pixel - prediction, for every pixel and prediction of the pixel range.
C26_ResidualWidth == [][ExactResidualStep]_vars

(***************************************************************************)
(* LearnTree on gathered columns                                           *)
(***************************************************************************)
MaxLearnSamples == 2

\* The residuals of one sample: <<of Weighted, of Gradient, of the others>>.
LearnResiduals == {-1, 0, 1}
LearnSamples == LearnResiduals \X LearnResiduals \X LearnResiduals
LearnSets == {"Variable", "Best"}

\* The residual columns of the candidates for the given samples.
LearnColumns(predictors, samples) ==
  [i \in 1..Len(predictors) |->
     [j \in 1..Len(samples) |->
        IF predictors[i] = "Weighted" THEN samples[j][1]
        ELSE IF predictors[i] = "Gradient" THEN samples[j][2]
        ELSE samples[j][3]]]

InitLearn ==
  /\ pc = "learn_call"
  /\ \E predictor \in LearnSets, force_no_wp \in BOOLEAN :
       /\ options = EncodeOptions(0, 65536, predictor, force_no_wp, <<1, 1>>)
       /\ \E n \in 1..MaxLearnSamples : \E samples \in [1..n -> LearnSamples] :
            gather = [GatherStart("none") EXCEPT
                        !.predictors = PredictorSet(predictor),
                        !.residuals = LearnColumns(PredictorSet(predictor), samples),
                        !.props = [cols |-> TRUE, size |-> n,
                                   wp |-> [j \in 1..n |-> samples[j][1]]]]
  /\ call = CallOf("learn", NoGlobal)
  /\ channel = <<>>
  /\ nb_meta_channels = 0
  /\ caller = "gather"
  /\ loop_i = 0
  /\ visited = NoVisits
  /\ finished = {}
  /\ image = NoImage
  /\ writer = <<>>
  /\ reader = NoReader
  /\ tree = <<>>
  /\ static_props = <<0, 0>>
  /\ FlatIdle
  /\ WalkIdle
  /\ CodecIdle
  /\ ZigIdle
  /\ first_run = NoRun

\* LearnTree called with the gathered columns, up to its hand-over to the
\* tree builder.
LearnCall ==
  /\ pc = "learn_call"
  /\ call' = [call EXCEPT !.learned = LearnTree(gather.predictors, gather.props,
                                                gather.residuals, options)]
  /\ pc' = "learned"
  /\ UNCHANGED <<tree, loop_i, options, image, writer, reader, gather, entry_rest>>

NextLearn == LearnCall

SpecLearn == InitLearn /\ [][NextLearn]_vars

\* The index (from 1) a predictor had in the set LearnTree was called with.
OriginalIndex(predictor) ==
  CHOOSE k \in 1..Len(gather.predictors) : gather.predictors[k] = predictor

\* C24: when LearnTree hands more than one candidate and at least one sample
\* to the tree builder, position 0 holds a predictor whose summed
\* PackSigned(residual) is minimal among the candidates handed over, the one
\* of lowest original index among those of minimal sum, and every predictor
\* handed over comes with its own residual column; also when force_no_wp has
\* removed the Weighted predictor.
C24_BaselinePredictor ==
  (pc = "learned" /\ call.learned.kind = "built" /\ Len(call.learned.predictors) > 1) =>
    LET l == call.learned
        n == Len(l.predictors)
    IN  /\ Len(l.residuals) = n
        /\ \A i \in 1..n :
             /\ \E k \in 1..Len(gather.predictors) : gather.predictors[k] = l.predictors[i]
             /\ l.residuals[i] = gather.residuals[OriginalIndex(l.predictors[i])]
        /\ \A i \in 1..n :
             \/ SumPacked(l.residuals[1]) < SumPacked(l.residuals[i])
             \/ /\ SumPacked(l.residuals[1]) = SumPacked(l.residuals[i])
                /\ OriginalIndex(l.predictors[1]) <= OriginalIndex(l.predictors[i])

(***************************************************************************)
(* ac_context.h: the zero-density context of an AC coefficient             *)
(***************************************************************************)
\* The number of entries of kCoeffFreqContext and kCoeffNumNonzeroContext.
kCoeffTableSize == 64

\* The entry 0xBAD at index 0 of both tables.
kBadEntry == 2989

kCoeffFreqContext ==
  <<kBadEntry, 0, 1, 2, 3, 4, 5, 6, 7, 8, 9, 10, 11, 12, 13, 14,
    15, 15, 16, 16, 17, 17, 18, 18, 19, 19, 20, 20, 21, 21, 22, 22,
    23, 23, 23, 23, 24, 24, 24, 24, 25, 25, 25, 25, 26, 26, 26, 26,
    27, 27, 27, 27, 28, 28, 28, 28, 29, 29, 29, 29, 30, 30, 30, 30>>

kCoeffNumNonzeroContext ==
  <<kBadEntry, 0, 31, 62, 62, 93, 93, 93, 93, 123, 123, 123, 123,
    152, 152, 152, 152, 152, 152, 152, 152, 180, 180, 180, 180, 180,
    180, 180, 180, 180, 180, 180, 180, 206, 206, 206, 206, 206, 206,
    206, 206, 206, 206, 206, 206, 206, 206, 206, 206, 206, 206, 206,
    206, 206, 206, 206, 206, 206, 206, 206, 206, 206, 206, 206>>

kZeroDensityContextCount == 458
kNonZeroBuckets == 37

\* x >> n for a non-negative x.
ShiftRight(x, n) == x \div (2 ^ n)

\* The indices ZeroDensityContext reads the two tables at:
\* <<into kCoeffNumNonzeroContext, into kCoeffFreqContext>>.
ZeroDensityIndices(nonzeros_left, k, covered_blocks, log2_covered_blocks) ==
  <<ShiftRight(nonzeros_left + covered_blocks - 1, log2_covered_blocks),
    ShiftRight(k, log2_covered_blocks)>>

\* ZeroDensityContext with prev counted twice.
ZeroDensityContext_DoublePrev(nonzeros_left, k, covered_blocks, log2_covered_blocks, prev) ==
  LET at == ZeroDensityIndices(nonzeros_left, k, covered_blocks, log2_covered_blocks)
  IN  (kCoeffNumNonzeroContext[at[1] + 1] + kCoeffFreqContext[at[2] + 1] + prev) * 2

ZeroDensityContext(nonzeros_left, k, covered_blocks, log2_covered_blocks, prev) ==
  LET at == ZeroDensityIndices(nonzeros_left, k, covered_blocks, log2_covered_blocks)
  IN  (kCoeffNumNonzeroContext[at[1] + 1] + kCoeffFreqContext[at[2] + 1]) * 2 + prev

\* BlockCtxMap::ZeroDensityContextsOffset for a map of num_ctxs block contexts.
ZeroDensityContextsOffset(num_ctxs, block_ctx) ==
  num_ctxs * kNonZeroBuckets + kZeroDensityContextCount * block_ctx

\* The block sizes the callers pass: covered_blocks and its logarithm.
CoveredBlocks == {<<1, 0>>, <<2, 1>>, <<4, 2>>}

InitZero ==
  /\ pc = "zero_density"
  /\ \E nonzeros_left \in 1..(kCoeffTableSize - 1), cb \in CoveredBlocks, prev \in 0..1 :
     \E k \in cb[1]..(kCoeffTableSize - 1) :
       call = [fn |-> "ZeroDensityContext", ret |-> "none",
               nonzeros_left |-> nonzeros_left, k |-> k, covered_blocks |-> cb[1],
               log2_covered_blocks |-> cb[2], prev |-> prev,
               indices |-> <<>>, context |-> 0]
  /\ image = NoImage
  /\ writer = <<>>
  /\ reader = NoReader
  /\ gather = NoGather
  /\ tree = <<>>
  /\ static_props = <<0, 0>>
  /\ FlatIdle
  /\ WalkIdle
  /\ SelIdle
  /\ CodecIdle
  /\ ZigIdle
  /\ first_run = NoRun

ZeroDensityCall ==
  /\ pc = "zero_density"
  /\ call' = [call EXCEPT
                !.ret = "ok",
                !.indices = ZeroDensityIndices(call.nonzeros_left, call.k,
                                               call.covered_blocks,
                                               call.log2_covered_blocks),
                !.context = ZeroDensityContext(call.nonzeros_left, call.k,
                                               call.covered_blocks,
                                               call.log2_covered_blocks, call.prev)]
  /\ pc' = "zero_density_done"
  /\ UNCHANGED <<tree, loop_i, options, image, writer, reader, gather, entry_rest>>

NextZero == ZeroDensityCall

SpecZero == InitZero /\ [][NextZero]_vars

\* C28: for covered_blocks = 1, nonzeros_left and k in 1..63 with
\* nonzeros_left + k <= 64 and prev in {0, 1}, ZeroDensityContext returns a
\* value below kZeroDensityContextCount, so that the contexts of one block
\* context end before those of the next begin; and for every nonzeros_left
\* and k below 64, whatever their sum, both table indices are inside the
\* tables.
C28_ZeroDensityBound ==
  pc = "zero_density_done" =>
    /\ call.indices[1] \in 0..(kCoeffTableSize - 1)
    /\ call.indices[2] \in 0..(kCoeffTableSize - 1)
    /\ (call.covered_blocks = 1 /\ call.nonzeros_left + call.k <= kCoeffTableSize) =>
         /\ call.context < kZeroDensityContextCount
         /\ \A num_ctxs \in 1..3, block_ctx \in 0..2 :
              ZeroDensityContextsOffset(num_ctxs, block_ctx) + call.context
                < ZeroDensityContextsOffset(num_ctxs, block_ctx + 1)

\* The largest value, 457, is returned for a sum of 64.
C28_Witness ==
  /\ pc = "zero_density_done"
  /\ call.covered_blocks = 1
  /\ call.nonzeros_left + call.k = kCoeffTableSize
  /\ call.context = 457

====
